---- MODULE Spec2Model ----
(***************************************************************************)
(* A model of the MP3 forensic analysis pipeline: the MPEG frame header    *)
(* parser and frame scanner (src/src/mp3/frame.rs), the LAME/Xing          *)
(* extraction and lowpass rules (src/src/mp3/lame.rs), the binary scoring  *)
(* rules (src/src/analyzer/binary.rs) and the score combination and        *)
(* verdict (src/src/analyzer/mod.rs).                                      *)
(*                                                                         *)
(* Bytes are integers 0..255.  A byte string (a file, a slice of it) is a  *)
(* record [len, nz]: len is its length and nz maps the offsets that hold a *)
(* non-zero byte to that byte; every other offset below len holds 0.       *)
(***************************************************************************)
EXTENDS Integers, Sequences, FiniteSets, TLC

VARIABLES
    header,       \* SpecParse: the four bytes handed to FrameHeader::parse
    parsed,       \* SpecParse: what parse returned (None until it has run)
    input,        \* how the file was put together: [prefix, frames, tags, trailer]
    data,         \* the bytes of the file
    max_frames,   \* scan_frames: the frame budget
    scan,         \* scan_frames: reader offset, FrameStats, bitrate set, status
    analyzer,     \* the Analyzer: skip_spectral and the two thresholds
    readable,     \* whether std::fs::read of the file succeeds
    locals,       \* Analyzer::analyze: what it has computed so far
    result,       \* Analyzer::analyze: the AnalysisResult returned
    scores,       \* SpecCombine, SpecVerdict: the two inputs compared
    outcome,      \* SpecCombine, SpecVerdict: what was computed from them
    extracted,    \* SpecExtract: what LameHeader::extract returned
    lowpass_args, \* SpecLowpass: <<bitrate, actual_lowpass>>
    lowpass_check, \* SpecLowpass: what check_lowpass_mismatch returned
    signatures,   \* SpecSignatures: the EncoderSignatures found and their count
    pc            \* position in the operation being run

vars == <<header, parsed, input, data, max_frames, scan, analyzer, readable,
          locals, result, scores, outcome, extracted, lowpass_args,
          lowpass_check, signatures, pc>>

(***************************************************************************)
(* u8 arithmetic                                                           *)
(***************************************************************************)
RECURSIVE BitAnd(_, _)
\* a & b on non-negative integers
BitAnd(a, b) ==
    IF a = 0 \/ b = 0 THEN 0
    ELSE (IF a % 2 = 1 /\ b % 2 = 1 THEN 1 ELSE 0) + 2 * BitAnd(a \div 2, b \div 2)

RECURSIVE Pow2(_)
Pow2(k) == IF k = 0 THEN 1 ELSE 2 * Pow2(k - 1)

\* a >> k
Shr(a, k) == a \div Pow2(k)

\* a << k (no overflow at the widths used: 7-bit values shifted by at most 21)
Shl(a, k) == a * Pow2(k)

(***************************************************************************)
(* Byte strings                                                            *)
(***************************************************************************)
\* the byte string of an explicit sequence of bytes
Bytes(seq) ==
    [len |-> Len(seq),
     nz  |-> [i \in {j - 1 : j \in {k \in 1..Len(seq) : seq[k] # 0}} |-> seq[i + 1]]]

\* n zero bytes
Zeros(n) == [len |-> n, nz |-> <<>>]

\* the byte at offset i (0-based), i < d.len
ByteAt(d, i) == IF i \in DOMAIN d.nz THEN d.nz[i] ELSE 0

\* a ++ b
Concat(a, b) ==
    [len |-> a.len + b.len,
     nz  |-> [i \in (DOMAIN a.nz) \cup {j + a.len : j \in DOMAIN b.nz} |->
                IF i \in DOMAIN a.nz THEN a.nz[i] ELSE b.nz[i - a.len]]]

\* &d[from..to), clipped to d
Slice(d, from, to) ==
    LET hi == IF to < d.len THEN to ELSE d.len
        lo == IF from < hi THEN from ELSE hi
    IN  [len |-> hi - lo,
         nz  |-> [i \in {j - lo : j \in {k \in DOMAIN d.nz : k >= lo /\ k < hi}} |->
                    d.nz[i + lo]]]

\* the four bytes at offset p as a tuple (p + 4 <= d.len)
Window4(d, p) == <<ByteAt(d, p), ByteAt(d, p + 1), ByteAt(d, p + 2), ByteAt(d, p + 3)>>

(***************************************************************************)
(* FrameHeader::parse                                                      *)
(***************************************************************************)
BITRATES_V1_L3 == <<0, 32, 40, 48, 56, 64, 80, 96, 112, 128, 160, 192, 224, 256, 320, 0>>
BITRATES_V1_L2 == <<0, 32, 48, 56, 64, 80, 96, 112, 128, 160, 192, 224, 256, 320, 384, 0>>
BITRATES_V1_L1 == <<0, 32, 64, 96, 128, 160, 192, 224, 256, 288, 320, 352, 384, 416, 448, 0>>
BITRATES_V2_L3 == <<0, 8, 16, 24, 32, 40, 48, 56, 64, 80, 96, 112, 128, 144, 160, 0>>
BITRATES_V2_L2 == <<0, 8, 16, 24, 32, 40, 48, 56, 64, 80, 96, 112, 128, 144, 160, 0>>
BITRATES_V2_L1 == <<0, 32, 48, 56, 64, 80, 96, 112, 128, 144, 160, 176, 192, 224, 256, 0>>

SAMPLE_RATES_V1  == <<44100, 48000, 32000, 0>>
SAMPLE_RATES_V2  == <<22050, 24000, 16000, 0>>
SAMPLE_RATES_V25 == <<11025, 12000, 8000, 0>>

\* Option::None
None == [some |-> FALSE]

\* Option::Some(v)
Some(v) == [some |-> TRUE, val |-> v]

\* mutant of ParseVersion: the reserved version bits 01 decode as MPEG2
ParseVersion_ReservedAccepted(h) ==
    LET bits == BitAnd(Shr(h[2], 3), 3)
    IN  IF bits = 0 THEN "Mpeg25"
        ELSE IF bits = 3 THEN "Mpeg1"
        ELSE "Mpeg2"

\* header[1] >> 3 & 0x03 -> MpegVersion
ParseVersion(h) ==
    LET bits == BitAnd(Shr(h[2], 3), 3)
    IN  IF bits = 0 THEN "Mpeg25"
        ELSE IF bits = 2 THEN "Mpeg2"
        ELSE IF bits = 3 THEN "Mpeg1"
        ELSE "reserved"

\* header[1] >> 1 & 0x03 -> Layer
ParseLayer(h) ==
    LET bits == BitAnd(Shr(h[2], 1), 3)
    IN  IF bits = 1 THEN "Layer3"
        ELSE IF bits = 2 THEN "Layer2"
        ELSE IF bits = 3 THEN "Layer1"
        ELSE "reserved"

\* the bitrate table selected by (version, layer)
BitrateTable(version, layer) ==
    IF version = "Mpeg1" /\ layer = "Layer1" THEN BITRATES_V1_L1
    ELSE IF version = "Mpeg1" /\ layer = "Layer2" THEN BITRATES_V1_L2
    ELSE IF version = "Mpeg1" /\ layer = "Layer3" THEN BITRATES_V1_L3
    ELSE IF layer = "Layer1" THEN BITRATES_V2_L1
    ELSE IF layer = "Layer2" THEN BITRATES_V2_L2
    ELSE BITRATES_V2_L3

\* the sample-rate table selected by the version
SampleRateTable(version) ==
    IF version = "Mpeg1" THEN SAMPLE_RATES_V1
    ELSE IF version = "Mpeg2" THEN SAMPLE_RATES_V2
    ELSE SAMPLE_RATES_V25

\* header[3] >> 6 & 0x03 -> ChannelMode
ParseChannelMode(h) ==
    LET bits == BitAnd(Shr(h[4], 6), 3)
    IN  IF bits = 0 THEN "Stereo"
        ELSE IF bits = 1 THEN "JointStereo"
        ELSE IF bits = 2 THEN "DualChannel"
        ELSE "Mono"

\* mutant of SamplesPerFrame: Layer III always has 1152 samples
SamplesPerFrame_NoHalving(version, layer) ==
    IF layer = "Layer1" THEN 384 ELSE 1152

SamplesPerFrame(version, layer) ==
    IF version = "Mpeg1" /\ layer = "Layer1" THEN 384
    ELSE IF version = "Mpeg1" /\ layer = "Layer2" THEN 1152
    ELSE IF version = "Mpeg1" /\ layer = "Layer3" THEN 1152
    ELSE IF layer = "Layer1" THEN 384
    ELSE IF layer = "Layer2" THEN 1152
    ELSE 576

\* the bytes added for a set padding bit
PaddingSize(padding, layer) ==
    IF padding THEN (IF layer = "Layer1" THEN 4 ELSE 1) ELSE 0

\* u32 arithmetic; the largest product, 144 * 384 * 1000, is below 2^32
FrameSize(layer, bitrate, sample_rate, padding) ==
    IF layer = "Layer1"
    THEN ((12 * bitrate * 1000) \div sample_rate + PaddingSize(padding, layer)) * 4
    ELSE (144 * bitrate * 1000) \div sample_rate + PaddingSize(padding, layer)

\* FrameHeader::parse(header): None, or Some(FrameHeader)
parse(h) ==
    IF h[1] # 255 \/ BitAnd(h[2], 224) # 224 THEN None
    ELSE
    LET version == ParseVersion(h)
        layer   == ParseLayer(h)
    IN  IF version = "reserved" THEN None
        ELSE IF layer = "reserved" THEN None
        ELSE
        LET bitrate_idx == BitAnd(Shr(h[3], 4), 15)
            bitrate     == BitrateTable(version, layer)[bitrate_idx + 1]
        IN  IF bitrate = 0 THEN None
            ELSE
            LET sample_rate_idx == BitAnd(Shr(h[3], 2), 3)
                sample_rate     == SampleRateTable(version)[sample_rate_idx + 1]
            IN  IF sample_rate = 0 THEN None
                ELSE
                LET padding == BitAnd(h[3], 2) # 0
                IN  Some([version           |-> version,
                          layer             |-> layer,
                          bitrate           |-> bitrate,
                          sample_rate       |-> sample_rate,
                          padding           |-> padding,
                          channel_mode      |-> ParseChannelMode(h),
                          frame_size        |-> FrameSize(layer, bitrate, sample_rate, padding),
                          samples_per_frame |-> SamplesPerFrame(version, layer)])

(***************************************************************************)
(* scan_frames and find_sync                                               *)
(***************************************************************************)
RECURSIVE SeqSum(_)
SeqSum(q) == IF q = <<>> THEN 0 ELSE Head(q) + SeqSum(Tail(q))

SeqMin(q) == CHOOSE x \in {q[i] : i \in DOMAIN q} : \A i \in DOMAIN q : x <= q[i]

SeqMax(q) == CHOOSE x \in {q[i] : i \in DOMAIN q} : \A i \in DOMAIN q : x >= q[i]

\* FrameStats::default()
EmptyStats ==
    [frame_count |-> 0, bitrates |-> <<>>, frame_sizes |-> <<>>, is_vbr |-> FALSE,
     avg_bitrate |-> 0, min_bitrate |-> 0, max_bitrate |-> 0]

\* the locals of scan_frames; status is where the function stands:
\* "idle" (not called), "loop", "fill" (loop left), "ok" (returned Ok(stats)),
\* "err" (returned Err).  offsets records where each accepted header was read.
ScanIdle ==
    [pos |-> 0, stats |-> EmptyStats, unique_bitrates |-> {}, offsets |-> <<>>,
     status |-> "idle"]

\* b"ID3"
ID3 == <<73, 68, 51>>

\* mutant of SyncsafeSize: the high bit of each size byte is kept
SyncsafeSize_Unmasked(buf) ==
    Shl(buf[1], 21) + Shl(buf[2], 14) + Shl(buf[3], 7) + buf[4]

\* the ID3v2 size field read into buf: a 28-bit syncsafe integer
SyncsafeSize(buf) ==
    Shl(BitAnd(buf[1], 127), 21) + Shl(BitAnd(buf[2], 127), 14)
        + Shl(BitAnd(buf[3], 127), 7) + BitAnd(buf[4], 127)

\* where the frame search starts: Some(offset), or None when the read of the
\* size field fails (the stream ends before offset 10)
StartPos(d) ==
    IF <<ByteAt(d, 0), ByteAt(d, 1), ByteAt(d, 2)>> = ID3
    THEN IF d.len < 10 THEN None ELSE Some(10 + SyncsafeSize(Window4(d, 6)))
    ELSE Some(0)

\* scan_frames up to the loop: the ID3v2 skip
scan_begin(d) ==
    IF d.len < 3 THEN [ScanIdle EXCEPT !.status = "ok"]
    ELSE LET start == StartPos(d)
         IN  IF start.some THEN [ScanIdle EXCEPT !.pos = start.val, !.status = "loop"]
             ELSE [ScanIdle EXCEPT !.status = "err"]

\* mutant of AfterReject: the reader seeks back to where the window began
AfterReject_Stay(p) == p + 4 - 4

\* mutant of AfterReject: a rejected window is skipped whole
AfterReject_SkipWindow(p) == p + 4

\* the reader's offset after a rejected window read at p: seek(Current(-3))
AfterReject(p) == p + 4 - 3

\* mutant of AfterFrame: the reader stays behind the header it has read
AfterFrame_HeaderOnly(p, frame_size) == p + 4

\* the reader's offset after a frame accepted at p
AfterFrame(p, frame_size) ==
    IF frame_size > 4 THEN p + 4 + (frame_size - 4) ELSE p + 4

\* one evaluation of the loop condition and, if it holds, of the loop body
scan_iter(d, sc, max) ==
    IF ~(sc.stats.frame_count < max) THEN [sc EXCEPT !.status = "fill"]
    ELSE IF sc.pos + 4 > d.len THEN [sc EXCEPT !.status = "fill"]
    ELSE
    LET frame == parse(Window4(d, sc.pos))
    IN  IF frame.some
        THEN [sc EXCEPT
                !.stats.frame_count = @ + 1,
                !.stats.bitrates = Append(@, frame.val.bitrate),
                !.stats.frame_sizes = Append(@, frame.val.frame_size),
                !.unique_bitrates = @ \cup {frame.val.bitrate},
                !.offsets = Append(@, sc.pos),
                !.pos = AfterFrame(sc.pos, frame.val.frame_size)]
        ELSE [sc EXCEPT !.pos = AfterReject(sc.pos)]

\* mutant of scan_fill: is_vbr from the number of frames, not of bitrates
scan_fill_VbrByCount(sc) ==
    IF sc.stats.bitrates # <<>>
    THEN [sc EXCEPT
            !.stats.is_vbr = Len(sc.stats.bitrates) > 1,
            !.stats.avg_bitrate = SeqSum(sc.stats.bitrates) \div Len(sc.stats.bitrates),
            !.stats.min_bitrate = SeqMin(sc.stats.bitrates),
            !.stats.max_bitrate = SeqMax(sc.stats.bitrates),
            !.status = "ok"]
    ELSE [sc EXCEPT !.status = "ok"]

\* scan_frames after the loop: the aggregate fields
scan_fill(sc) ==
    IF sc.stats.bitrates # <<>>
    THEN [sc EXCEPT
            !.stats.is_vbr = Cardinality(sc.unique_bitrates) > 1,
            !.stats.avg_bitrate = SeqSum(sc.stats.bitrates) \div Len(sc.stats.bitrates),
            !.stats.min_bitrate = SeqMin(sc.stats.bitrates),
            !.stats.max_bitrate = SeqMax(sc.stats.bitrates),
            !.status = "ok"]
    ELSE [sc EXCEPT !.status = "ok"]

RECURSIVE scan_run(_, _, _)
scan_run(d, sc, max) ==
    IF sc.status = "loop" THEN scan_run(d, scan_iter(d, sc, max), max)
    ELSE IF sc.status = "fill" THEN scan_fill(sc)
    ELSE sc

\* scan_frames(reader, max_frames) run to its return
scan_frames(d, max) == scan_run(d, scan_begin(d), max)

\* the search limit of find_sync
SYNC_SEARCH_LIMIT == 10000

\* the loop of find_sync: it reads the windows at start_pos, start_pos + 1,
\* ... up to start_pos + 10000 or the last window of the stream, and returns
\* the first offset whose window parses.  A window that parses starts with
\* 0xFF, so the offsets that hold a zero byte are passed over at once.
find_sync_from(d, start_pos) ==
    LET last == IF start_pos + SYNC_SEARCH_LIMIT < d.len - 4
                THEN start_pos + SYNC_SEARCH_LIMIT ELSE d.len - 4
        hits == {p \in DOMAIN d.nz :
                    p >= start_pos /\ p <= last /\ parse(Window4(d, p)).some}
    IN  IF hits = {} THEN None
        ELSE Some(CHOOSE p \in hits : \A r \in hits : p <= r)

\* find_sync(reader): [ok |-> FALSE] for Err, else [ok |-> TRUE, pos |-> Option]
find_sync(d) ==
    IF d.len < 3 THEN [ok |-> FALSE]
    ELSE LET start == StartPos(d)
         IN  IF ~start.some THEN [ok |-> FALSE]
             ELSE [ok |-> TRUE, pos |-> find_sync_from(d, start.val)]

(***************************************************************************)
(* Strings: a string is the sequence of its bytes                          *)
(***************************************************************************)
\* "Xing"
S_Xing == <<88, 105, 110, 103>>

\* "Info"
S_Info == <<73, 110, 102, 111>>

\* "LAME"
S_LAME == <<76, 65, 77, 69>>

\* "Lavc"
S_Lavc == <<76, 97, 118, 99>>

\* "Lavf"
S_Lavf == <<76, 97, 118, 102>>

\* "Fraunhofer"
S_Fraunhofer == <<70, 114, 97, 117, 110, 104, 111, 102, 101, 114>>

\* "FhG"
S_FhG == <<70, 104, 71>>

\* "iTunes"
S_iTunes == <<105, 84, 117, 110, 101, 115>>

\* "Apple"
S_Apple == <<65, 112, 112, 108, 101>>

\* "libmp3lame"
S_libmp3lame == <<108, 105, 98, 109, 112, 51, 108, 97, 109, 101>>

\* "FFmpeg"
S_FFmpeg == <<70, 70, 109, 112, 101, 103>>

\* "unknown"
S_unknown == <<117, 110, 107, 110, 111, 119, 110>>

\* the bytes of d as a sequence
SeqOf(d) == [i \in 1..d.len |-> ByteAt(d, i - 1)]

\* a continuation byte 0x80..0xBF
IsCont(b) == b >= 128 /\ b <= 191

RECURSIVE IsUtf8(_)
\* std::str::from_utf8(q).is_ok(): q is well-formed UTF-8
IsUtf8(q) ==
    LET n == Len(q)
        rest(k) == SubSeq(q, k + 1, n)
    IN  IF n = 0 THEN TRUE
        ELSE IF q[1] < 128 THEN IsUtf8(rest(1))
        ELSE IF q[1] >= 194 /\ q[1] <= 223
        THEN n >= 2 /\ IsCont(q[2]) /\ IsUtf8(rest(2))
        ELSE IF q[1] >= 224 /\ q[1] <= 239
        THEN /\ n >= 3
             /\ IF q[1] = 224 THEN q[2] >= 160 /\ q[2] <= 191
                ELSE IF q[1] = 237 THEN q[2] >= 128 /\ q[2] <= 159
                ELSE IsCont(q[2])
             /\ IsCont(q[3])
             /\ IsUtf8(rest(3))
        ELSE IF q[1] >= 240 /\ q[1] <= 244
        THEN /\ n >= 4
             /\ IF q[1] = 240 THEN q[2] >= 144 /\ q[2] <= 191
                ELSE IF q[1] = 244 THEN q[2] >= 128 /\ q[2] <= 143
                ELSE IsCont(q[2])
             /\ IsCont(q[3]) /\ IsCont(q[4])
             /\ IsUtf8(rest(4))
        ELSE FALSE

RECURSIVE TrimEndNul(_)
\* str::trim_end_matches('\0')
TrimEndNul(q) ==
    IF q # <<>> /\ q[Len(q)] = 0 THEN TrimEndNul(SubSeq(q, 1, Len(q) - 1)) ELSE q

\* c.is_ascii_alphanumeric() || c == '.' || c == '-'
IsVersionChar(b) ==
    \/ b >= 48 /\ b <= 57
    \/ b >= 65 /\ b <= 90
    \/ b >= 97 /\ b <= 122
    \/ b = 46
    \/ b = 45

RECURSIVE TakeWhileVersionChar(_)
TakeWhileVersionChar(q) ==
    IF q # <<>> /\ IsVersionChar(q[1]) THEN <<q[1]>> \o TakeWhileVersionChar(Tail(q)) ELSE <<>>

(***************************************************************************)
(* LameHeader::extract                                                     *)
(***************************************************************************)
\* find_pattern(haystack, needle): the first offset at which needle occurs.
\* Every needle searched for starts with a non-zero byte, so an occurrence
\* starts at an offset holding a non-zero byte.
find_pattern(d, needle) ==
    LET n    == Len(needle)
        hits == {p \in DOMAIN d.nz :
                    /\ p + n <= d.len
                    /\ \A i \in 1..n : ByteAt(d, p + i - 1) = needle[i]}
    IN  IF hits = {} THEN None
        ELSE Some(CHOOSE p \in hits : \A r \in hits : p <= r)

\* u32::from_be_bytes of the four bytes at offset p (in the files modelled
\* the first of the four bytes is below 128)
BeU32(d, p) ==
    ByteAt(d, p) * 16777216 + ByteAt(d, p + 1) * 65536 + ByteAt(d, p + 2) * 256
        + ByteAt(d, p + 3)

\* the first bytes of the file searched for the Xing/Info and LAME markers
SEARCH_REGION == 2048

\* the bytes searched for a LAME/Lavc marker after the Xing/Info fields
LAME_SEARCH_SPAN == 50

\* the first bytes searched for "LAME" when no tag followed Xing/Info
FALLBACK_REGION == 500

\* LameHeader::default()
DefaultLameHeader ==
    [encoder |-> <<>>, lowpass |-> None, vbr_method |-> None, quality |-> None,
     is_vbr_header |-> FALSE, total_frames |-> None, total_bytes |-> None]

\* the version string of at most n bytes at marker offset p ("" kept when the
\* bytes are not UTF-8)
VersionAt(region, p, n, old) ==
    LET raw == SeqOf(Slice(region, p, p + n))
    IN  IF IsUtf8(raw) THEN TrimEndNul(raw) ELSE old

\* mutant of LowpassAt: the lowpass byte is taken whatever its value
LowpassAt_Unchecked(region, lame_pos) ==
    IF lame_pos + 10 < region.len
    THEN Some(ByteAt(region, lame_pos + 10) * 100)
    ELSE None

\* the lowpass of the LAME tag at lame_pos: byte 10, accepted in 50..220
LowpassAt(region, lame_pos) ==
    IF lame_pos + 10 < region.len
          /\ ByteAt(region, lame_pos + 10) >= 50 /\ ByteAt(region, lame_pos + 10) <= 220
    THEN Some(ByteAt(region, lame_pos + 10) * 100)
    ELSE None

\* the fallback search and the final returns of extract, with the header
\* as filled so far; found says whether a Xing/Info marker was located
ExtractFallback(region, hdr, found) ==
    LET lame == find_pattern(Slice(region, 0, FALLBACK_REGION), S_LAME)
    IN  IF lame.some
        THEN Some([hdr EXCEPT
                     !.encoder = VersionAt(region, lame.val, 9, hdr.encoder),
                     !.lowpass = LowpassAt(region, lame.val)])
        ELSE IF found THEN Some(hdr)
        ELSE None

\* the result of a call that panics
Panic == [some |-> FALSE, panic |-> TRUE]

Panicked(r) == "panic" \in DOMAIN r

\* is the optional 4-byte field announced by bit of flags present at off
HasField(region, flags, bit, off) == BitAnd(flags, bit) # 0 /\ off + 4 <= region.len

\* the field announced by bit, read at off
FieldAt(region, flags, bit, off) ==
    IF HasField(region, flags, bit, off) THEN Some(BeU32(region, off)) ELSE None

\* offset after the field announced by bit
AfterField(region, flags, bit, off) ==
    IF HasField(region, flags, bit, off) THEN off + 4 ELSE off

\* offset after the TOC: skipped without a bounds check
AfterToc(flags, off) == IF BitAnd(flags, 4) # 0 THEN off + 100 ELSE off

\* offset after the quality indicator: skipped without a bounds check
AfterQuality(flags, off) == IF BitAnd(flags, 8) # 0 THEN off + 4 ELSE off

\* offset after the four optional fields that follow the flags at p + 4
AfterXingFields(region, flags, p) ==
    AfterQuality(flags,
        AfterToc(flags,
            AfterField(region, flags, 2, AfterField(region, flags, 1, p + 8))))

\* the header filled from the LAME tag at lame_pos
LameTagHeader(region, hdr, lame_pos) ==
    LET has_info == lame_pos + 9 < region.len
        info     == ByteAt(region, lame_pos + 9)
    IN  [hdr EXCEPT
           !.encoder = VersionAt(region, lame_pos, 9, hdr.encoder),
           !.lowpass = LowpassAt(region, lame_pos),
           !.vbr_method = IF has_info THEN Some(BitAnd(info, 15)) ELSE None,
           !.quality = IF has_info THEN Some(BitAnd(Shr(info, 4), 15)) ELSE None]

\* the search for a LAME or Lavc marker in region[start..end), then the
\* fallback search
ExtractTagIn(region, hdr, lame_search_start, lame_search_end) ==
    LET win  == Slice(region, lame_search_start, lame_search_end)
        lame == find_pattern(win, S_LAME)
        lavc == find_pattern(win, S_Lavc)
    IN  IF lame.some
        THEN Some(LameTagHeader(region, hdr, lame_search_start + lame.val))
        ELSE IF lavc.some
        THEN Some([hdr EXCEPT
                     !.encoder = VersionAt(region, lame_search_start + lavc.val, 12,
                                           hdr.encoder)])
        ELSE ExtractFallback(region, hdr, TRUE)

\* the slice region[lame_search_start..lame_search_end] panics when it
\* starts after its end
ExtractTag(region, hdr, lame_search_start) ==
    IF lame_search_start > region.len THEN Panic
    ELSE ExtractTagIn(region, hdr, lame_search_start,
                      IF lame_search_start + LAME_SEARCH_SPAN < region.len
                      THEN lame_search_start + LAME_SEARCH_SPAN ELSE region.len)

\* the Xing/Info fields at marker offset p with the flags read at p + 4
ExtractFields(region, hdr, p, flags) ==
    ExtractTag(region,
               [hdr EXCEPT
                  !.total_frames = FieldAt(region, flags, 1, p + 8),
                  !.total_bytes  = FieldAt(region, flags, 2,
                                           AfterField(region, flags, 1, p + 8))],
               AfterXingFields(region, flags, p))

\* mutant of ExtractVbr: of the two markers the one that occurs first is used
ExtractVbr_FirstMarker(region, xing_pos, info_pos) ==
    LET xing_first == xing_pos.some /\ (info_pos.some => xing_pos.val < info_pos.val)
        vbr_pos    == IF xing_first THEN xing_pos ELSE info_pos
        hdr        == [DefaultLameHeader EXCEPT !.is_vbr_header = xing_first]
    IN  IF vbr_pos.some /\ vbr_pos.val + 8 <= region.len
        THEN ExtractFields(region, hdr, vbr_pos.val, BeU32(region, vbr_pos.val + 4))
        ELSE ExtractFallback(region, hdr, vbr_pos.some)

\* extract once the Xing and Info markers have been searched for
ExtractVbr(region, xing_pos, info_pos) ==
    LET vbr_pos == IF xing_pos.some THEN xing_pos ELSE info_pos
        hdr     == [DefaultLameHeader EXCEPT !.is_vbr_header = xing_pos.some]
    IN  IF vbr_pos.some /\ vbr_pos.val + 8 <= region.len
        THEN ExtractFields(region, hdr, vbr_pos.val, BeU32(region, vbr_pos.val + 4))
        ELSE ExtractFallback(region, hdr, vbr_pos.some)

\* extract on the search region
ExtractIn(region) ==
    ExtractVbr(region, find_pattern(region, S_Xing), find_pattern(region, S_Info))

\* LameHeader::extract(data): None, Some(LameHeader), or Panic when the
\* slice searched for the LAME marker would start after its end
extract(d) == ExtractIn(Slice(d, 0, SEARCH_REGION))

(***************************************************************************)
(* scan_encoder_signatures, count_encoder_signatures                       *)
(***************************************************************************)
\* the first bytes of the file scanned for encoder signatures
SIG_REGION == 65536

\* text.contains(needle) on the lossy UTF-8 rendering of buf: the rendering
\* keeps every ASCII byte and the adjacency of ASCII bytes, so an ASCII needle
\* occurs in the text iff it occurs in the bytes
Contains(buf, needle) == find_pattern(buf, needle).some

\* mutant of scan_encoder_signatures: itunes from the text "iTunes" alone
scan_encoder_signatures_iTunesTextOnly(d) ==
    LET buf == Slice(d, 0, SIG_REGION)
        pos == find_pattern(buf, S_LAME)
        raw == IF pos.some THEN SeqOf(Slice(buf, pos.val, pos.val + 20)) ELSE <<>>
        version == IF IsUtf8(raw) THEN TakeWhileVersionChar(raw) ELSE <<>>
    IN  [lame       |-> IF version # <<>> THEN Some(version) ELSE None,
         fraunhofer |-> Contains(buf, S_Fraunhofer) \/ Contains(buf, S_FhG),
         itunes     |-> Contains(buf, S_iTunes),
         ffmpeg     |-> Contains(buf, S_Lavf) \/ Contains(buf, S_libmp3lame),
         xing       |-> find_pattern(buf, S_Xing).some \/ find_pattern(buf, S_Info).some,
         other      |-> <<>>]

\* scan_encoder_signatures(reader) on an in-memory reader (never Err)
scan_encoder_signatures(d) ==
    LET buf == Slice(d, 0, SIG_REGION)
        pos == find_pattern(buf, S_LAME)
        raw == IF pos.some THEN SeqOf(Slice(buf, pos.val, pos.val + 20)) ELSE <<>>
        version == IF IsUtf8(raw) THEN TakeWhileVersionChar(raw) ELSE <<>>
    IN  [lame       |-> IF version # <<>> THEN Some(version) ELSE None,
         fraunhofer |-> Contains(buf, S_Fraunhofer) \/ Contains(buf, S_FhG),
         itunes     |-> Contains(buf, S_iTunes)
                            \/ (Contains(buf, S_Lavf) /\ Contains(buf, S_Apple)),
         ffmpeg     |-> Contains(buf, S_Lavf) \/ Contains(buf, S_libmp3lame),
         xing       |-> find_pattern(buf, S_Xing).some \/ find_pattern(buf, S_Info).some,
         other      |-> <<>>]

\* mutant of count_encoder_signatures: the Xing/Info header counts as well
count_encoder_signatures_WithXing(d) ==
    LET sigs == scan_encoder_signatures(d)
    IN  (IF sigs.lame.some THEN 1 ELSE 0) + (IF sigs.fraunhofer THEN 1 ELSE 0)
            + (IF sigs.itunes THEN 1 ELSE 0) + (IF sigs.ffmpeg THEN 1 ELSE 0)
            + (IF sigs.xing THEN 1 ELSE 0)

\* count_encoder_signatures(reader)
count_encoder_signatures(d) ==
    LET sigs == scan_encoder_signatures(d)
    IN  (IF sigs.lame.some THEN 1 ELSE 0) + (IF sigs.fraunhofer THEN 1 ELSE 0)
            + (IF sigs.itunes THEN 1 ELSE 0) + (IF sigs.ffmpeg THEN 1 ELSE 0)

(***************************************************************************)
(* Lowpass rules                                                           *)
(***************************************************************************)
\* mutant of expected_lowpass_for_bitrate: the lowest row for every bitrate
expected_lowpass_for_bitrate_Lowest(bitrate) == 14000

expected_lowpass_for_bitrate(bitrate) ==
    IF bitrate >= 320 THEN 20500
    ELSE IF bitrate >= 256 THEN 20000
    ELSE IF bitrate >= 224 THEN 19500
    ELSE IF bitrate >= 192 THEN 18500
    ELSE IF bitrate >= 160 THEN 17500
    ELSE IF bitrate >= 128 THEN 16000
    ELSE IF bitrate >= 112 THEN 15500
    ELSE IF bitrate >= 96 THEN 15000
    ELSE 14000

\* mutant of min_acceptable_lowpass: the expected lowpass is the minimum
min_acceptable_lowpass_Expected(bitrate) == expected_lowpass_for_bitrate(bitrate)

min_acceptable_lowpass(bitrate) ==
    IF bitrate >= 256 THEN 18000
    ELSE IF bitrate >= 192 THEN 17000
    ELSE IF bitrate >= 160 THEN 16000
    ELSE IF bitrate >= 128 THEN 15000
    ELSE 0

\* mutant of LikelySource: each bound belongs to the next label
LikelySource_Exclusive(lp) ==
    IF lp < 11000 THEN "64kbps or lower"
    ELSE IF lp < 14000 THEN "96kbps"
    ELSE IF lp < 16000 THEN "128kbps"
    ELSE IF lp < 17500 THEN "160kbps"
    ELSE IF lp < 18500 THEN "192kbps"
    ELSE "lower bitrate"

\* the likely-source label of a suspicious lowpass
LikelySource(lp) ==
    IF lp <= 11000 THEN "64kbps or lower"
    ELSE IF lp <= 14000 THEN "96kbps"
    ELSE IF lp <= 16000 THEN "128kbps"
    ELSE IF lp <= 17500 THEN "160kbps"
    ELSE IF lp <= 18500 THEN "192kbps"
    ELSE "lower bitrate"

\* check_lowpass_mismatch(bitrate, actual_lowpass); the reason "Lowpass {}Hz
\* suggests transcode from {} source" is kept as its two arguments
check_lowpass_mismatch(bitrate, actual_lowpass) ==
    LET expected  == expected_lowpass_for_bitrate(bitrate)
        threshold == min_acceptable_lowpass(bitrate)
    IN  IF threshold > 0 /\ actual_lowpass > 0 /\ actual_lowpass < threshold
        THEN [is_suspicious |-> TRUE, expected |-> expected,
              reason |-> Some(<<actual_lowpass, LikelySource(actual_lowpass)>>)]
        ELSE [is_suspicious |-> FALSE, expected |-> expected, reason |-> None]

(***************************************************************************)
(* binary::analyze                                                         *)
(***************************************************************************)
RECURSIVE SeqSumSq(_)
SeqSumSq(q) == IF q = <<>> THEN 0 ELSE Head(q) * Head(q) + SeqSumSq(Tail(q))

\* FrameStats::frame_size_cv() > 15.0, in exact arithmetic: with n sizes of
\* sum s1 and sum of squares s2, cv = 100 * sqrt(n*s2 - s1^2) / s1, so
\* cv > 15 iff 10000 * (n*s2 - s1^2) > 225 * s1^2 (both sides divided by 25
\* below); cv is 0.0 for no sizes or a zero mean
FrameSizeCvOver15(frame_sizes) ==
    LET n  == Len(frame_sizes)
        s1 == SeqSum(frame_sizes)
        s2 == SeqSumSq(frame_sizes)
    IN  IF n = 0 \/ s1 = 0 THEN FALSE
        ELSE 400 * (n * s2 - s1 * s1) > 9 * s1 * s1

\* the frames binary::analyze and Analyzer::analyze scan
SCAN_FRAMES == 200

\* the encoder named when no LAME header was extracted
EncoderFromSignatures(sigs) ==
    IF sigs.lame.some THEN sigs.lame.val
    ELSE IF sigs.fraunhofer THEN S_Fraunhofer
    ELSE IF sigs.itunes THEN S_iTunes
    ELSE IF sigs.ffmpeg THEN S_FFmpeg
    ELSE S_unknown

\* mutant of EncoderFromHeader: the header's encoder is taken as it is
EncoderFromHeader_Raw(lame_header) == lame_header.encoder

\* the encoder named when a LAME header was extracted
EncoderFromHeader(lame_header) ==
    IF lame_header.encoder = <<>> THEN S_LAME ELSE lame_header.encoder

\* the lowpass rule: is the header's lowpass suspicious for the bitrate
LowpassRule(lame_header, bitrate) ==
    /\ lame_header.lowpass.some
    /\ check_lowpass_mismatch(bitrate, lame_header.lowpass.val).is_suspicious

\* mutant of MultiEncoderRule: one signature is enough
MultiEncoderRule_AnyEncoder(count) == count > 0

\* the multi-encoder rule
MultiEncoderRule(count) == count > 1

\* mutant of IrregularFramesRule: irregular sizes count at every bitrate
IrregularFramesRule_AnyBitrate(bitrate, frame_sizes) == FrameSizeCvOver15(frame_sizes)

\* the frame irregularity rule
IrregularFramesRule(bitrate, frame_sizes) ==
    bitrate >= 256 /\ FrameSizeCvOver15(frame_sizes)

\* the BinaryResult built from the extracted header lh, the signatures, their
\* count and the frame scan fs, or Panic when LameHeader::extract panicked;
\* the flag format!("lowpass_mismatch({}Hz)", lowpass) is kept as name and value
BinaryResultOf(lh, sigs, count, fs, bitrate) ==
    LET sizes == IF fs.status = "ok" THEN fs.stats.frame_sizes ELSE <<>>
        r1    == lh.some /\ LowpassRule(lh.val, bitrate)
        r2    == MultiEncoderRule(count)
        r3    == fs.status = "ok" /\ IrregularFramesRule(bitrate, sizes)
    IN  IF Panicked(lh) THEN Panic
        ELSE
        Some([score   |-> (IF r1 THEN 35 ELSE 0) + (IF r2 THEN 20 ELSE 0)
                              + (IF r3 THEN 10 ELSE 0),
              flags   |-> (IF r1 THEN <<<<"lowpass_mismatch", lh.val.lowpass.val>>>>
                           ELSE <<>>)
                              \o (IF r2 THEN <<<<"multi_encoder_sigs">>>> ELSE <<>>)
                              \o (IF r3 THEN <<<<"irregular_frames">>>> ELSE <<>>),
              encoder |-> IF lh.some THEN EncoderFromHeader(lh.val)
                          ELSE EncoderFromSignatures(sigs),
              lowpass |-> IF lh.some THEN lh.val.lowpass ELSE None,
              details |->
                 [lowpass          |-> IF lh.some THEN lh.val.lowpass ELSE None,
                  expected_lowpass |->
                      IF lh.some /\ lh.val.lowpass.some
                      THEN Some(expected_lowpass_for_bitrate(bitrate)) ELSE None,
                  encoder_version  |-> IF lh.some THEN Some(lh.val.encoder) ELSE None,
                  encoder_count    |-> count,
                  cv_over_15       |-> FrameSizeCvOver15(sizes),
                  is_vbr           |-> lh.some /\ lh.val.is_vbr_header,
                  total_frames     |-> IF lh.some THEN lh.val.total_frames ELSE None]])

\* binary::analyze(data, reader, bitrate)
binary_analyze(d, bitrate) ==
    BinaryResultOf(extract(d), scan_encoder_signatures(d),
                   count_encoder_signatures(d), scan_frames(d, SCAN_FRAMES), bitrate)

(***************************************************************************)
(* Analyzer::analyze                                                       *)
(***************************************************************************)
\* Analyzer::default().suspect_threshold
DEFAULT_SUSPECT == 35

\* Analyzer::default().transcode_threshold
DEFAULT_TRANSCODE == 65

\* Analyzer::default()
DefaultAnalyzer ==
    [skip_spectral |-> FALSE, transcode_threshold |-> DEFAULT_TRANSCODE,
     suspect_threshold |-> DEFAULT_SUSPECT]

\* Analyzer::new().with_skip_spectral(skip).with_thresholds(suspect, transcode)
AnalyzerWith(skip, suspect, transcode) ==
    [skip_spectral |-> skip, transcode_threshold |-> transcode,
     suspect_threshold |-> suspect]

\* the sample rate reported when no frame gives one
DEFAULT_SAMPLE_RATE == 44100

\* the scores the spectral analyzer may return
SpectralScores == 0..100

\* the flag lists the spectral analyzer may return
SpectralFlags == {<<>>, <<<<"spectral">>>>}

\* SpectralResult::default(), returned when the spectral analysis is skipped
DefaultSpectralResult == [score |-> 0, flags |-> <<>>]

\* the bonus added when both analyses agree
AgreementBonus(binary_score, spectral_score) ==
    IF spectral_score >= 30 /\ binary_score >= 20 THEN 15 ELSE 0

\* mutant of CombinedScore: the sum is not clamped
CombinedScore_Unclamped(binary_score, spectral_score) ==
    binary_score + spectral_score + AgreementBonus(binary_score, spectral_score)

\* mutant of CombinedScore: the bonus replaces the sum where it applies
CombinedScore_BonusOnly(binary_score, spectral_score) ==
    IF AgreementBonus(binary_score, spectral_score) > 0 THEN 15 + spectral_score
    ELSE IF binary_score + spectral_score < 100 THEN binary_score + spectral_score
    ELSE 100

\* combined_score (u32; the sum stays far below 2^32)
CombinedScore(binary_score, spectral_score) ==
    LET sum == binary_score + spectral_score
                   + AgreementBonus(binary_score, spectral_score)
    IN  IF sum < 100 THEN sum ELSE 100

\* mutant of VerdictOf: the thresholds are exclusive
VerdictOf_Exclusive(a, combined_score) ==
    IF combined_score > a.transcode_threshold THEN "TRANSCODE"
    ELSE IF combined_score > a.suspect_threshold THEN "SUSPECT"
    ELSE "OK"

\* mutant of VerdictOf: the suspect threshold is tested first
VerdictOf_SuspectFirst(a, combined_score) ==
    IF combined_score >= a.suspect_threshold THEN "SUSPECT"
    ELSE IF combined_score >= a.transcode_threshold THEN "TRANSCODE"
    ELSE "OK"

\* the verdict of a readable file
VerdictOf(a, combined_score) ==
    IF combined_score >= a.transcode_threshold THEN "TRANSCODE"
    ELSE IF combined_score >= a.suspect_threshold THEN "SUSPECT"
    ELSE "OK"

\* mutant of ErrorResult: the scores of a file that could not be read are kept
\* at the transcode threshold
ErrorResult_Scored ==
    [bitrate |-> 0, sample_rate |-> 0, duration_secs |-> <<0, 1>>, verdict |-> "ERROR",
     combined_score |-> 65, spectral_score |-> 0, binary_score |-> 65, flags |-> <<>>,
     encoder |-> <<>>, lowpass |-> None, spectral_details |-> None,
     binary_details |-> None, error |-> Some("Failed to read file")]

\* the result returned when the file cannot be read
ErrorResult ==
    [bitrate |-> 0, sample_rate |-> 0, duration_secs |-> <<0, 1>>, verdict |-> "ERROR",
     combined_score |-> 0, spectral_score |-> 0, binary_score |-> 0, flags |-> <<>>,
     encoder |-> <<>>, lowpass |-> None, spectral_details |-> None,
     binary_details |-> None, error |-> Some("Failed to read file")]

\* the locals of Analyzer::analyze before it has computed anything
NoLocals ==
    [bitrate |-> 0, sample_rate |-> 0, duration_secs |-> <<0, 1>>,
     binary_result |-> None, spectral_result |-> None]

\* bitrate, sample_rate and duration_secs from the frame scan fs and the
\* first sync found; duration_secs, an f64 quotient, is kept as
\* <<numerator, denominator>>
BasicInfoOf(d, fs, sync) ==
    LET frame_stats == IF fs.status = "ok" THEN fs.stats ELSE EmptyStats
        first == IF sync.ok /\ sync.pos.some /\ sync.pos.val + 4 <= d.len
                 THEN parse(Window4(d, sync.pos.val)) ELSE None
    IN  [bitrate |-> frame_stats.avg_bitrate,
         sample_rate |->
             IF frame_stats.frame_sizes # <<>> /\ first.some
             THEN first.val.sample_rate ELSE DEFAULT_SAMPLE_RATE,
         duration_secs |->
             IF frame_stats.avg_bitrate > 0
             THEN <<d.len * 8, frame_stats.avg_bitrate * 1000>> ELSE <<0, 1>>]

\* frame_stats, bitrate, sample_rate and duration_secs of a file read
BasicInfo(d) == BasicInfoOf(d, scan_frames(d, SCAN_FRAMES), find_sync(d))

\* the locals once the basic information is known
WithBasicInfo(loc, info) ==
    [loc EXCEPT !.bitrate = info.bitrate, !.sample_rate = info.sample_rate,
                !.duration_secs = info.duration_secs]

\* the AnalysisResult of a file read
ResultOf(a, loc) ==
    LET b == loc.binary_result.val
        sp == loc.spectral_result.val
        combined_score == CombinedScore(b.score, sp.score)
    IN  [bitrate |-> loc.bitrate, sample_rate |-> loc.sample_rate,
         duration_secs |-> loc.duration_secs,
         verdict |-> VerdictOf(a, combined_score),
         combined_score |-> combined_score,
         spectral_score |-> sp.score,
         binary_score |-> b.score,
         flags |-> b.flags \o sp.flags,
         encoder |-> b.encoder,
         lowpass |-> b.lowpass,
         spectral_details |-> Some("details"),
         binary_details |-> Some(b.details),
         error |-> None]

(***************************************************************************)
(* Files                                                                   *)
(***************************************************************************)
\* a whole frame: the header and frame_size - 4 zero bytes
Frame(h) == Concat(Bytes(h), Zeros(parse(h).val.frame_size - 4))

RECURSIVE FrameStream(_)
\* the frames of the given headers, back to back
FrameStream(hs) ==
    IF hs = <<>> THEN Zeros(0) ELSE Concat(Frame(Head(hs)), FrameStream(Tail(hs)))

\* headers of the frames put in files: MPEG1 Layer III 128 and 160 kbps at
\* 44100 Hz, MPEG2 and MPEG2.5 Layer III 8 kbps, MPEG1 Layer I 32 kbps padded
FrameHeaders ==
    {<<255, 251, 144, 0>>, <<255, 251, 160, 0>>, <<255, 243, 20, 0>>,
     <<255, 227, 20, 192>>, <<255, 255, 22, 64>>}

\* most frames in a file
MaxFrames == 2

\* longest run of raw bytes put before the frames
MaxPrefixLen == 2

\* largest declared ID3v2 tag size
MaxId3Size == 2

\* largest frame budget tried
MaxBudget == 3

\* an ID3v2 tag: "ID3", version 2.4.0, flags 0, the size bytes, body zero bytes
Id3Tag(size_bytes, body) ==
    Concat(Bytes(ID3 \o <<4, 0, 0>> \o size_bytes), Zeros(body))

\* what is put before the frames: raw bytes out of 0x00, 0xFF, 0xFB and 0x90,
\* an ID3v2 tag whose body has the declared size (the size bytes with and
\* without their high bits set) or is missing, or a tag cut after "ID3",
\* before the size field or inside it
Prefixes ==
    {Bytes(q) : q \in UNION {[1..n -> {0, 255, 251, 144}] : n \in 0..MaxPrefixLen}}
    \cup {Id3Tag(<<0, 0, 0, s>>, s) : s \in 0..MaxId3Size}
    \cup {Id3Tag(<<128, 0, 0, s>>, s) : s \in 0..MaxId3Size}
    \cup {Id3Tag(<<0, 0, 129, 128 + s>>, 128 + s) : s \in 0..MaxId3Size}
    \cup {Id3Tag(<<0, 0, 0, s>>, 0) : s \in 1..MaxId3Size}
    \cup {Bytes(ID3), Bytes(ID3 \o <<4, 0, 0>>), Bytes(ID3 \o <<4, 0, 0, 0, 0>>)}

\* what follows the whole frames of a scanned stream: nothing, a frame cut
\* after its header, or a frame cut inside its header
CutFrames == {Zeros(0), Bytes(<<255, 251, 144, 0>>), Bytes(<<255, 251>>)}

FrameLists == UNION {[1..n -> FrameHeaders] : n \in 0..MaxFrames}

\* d with blob written over it at offset off (off + blob.len <= d.len)
Overlay(d, off, blob) ==
    LET moved == {j + off : j \in DOMAIN blob.nz}
        kept  == {j \in DOMAIN d.nz : j < off \/ j >= off + blob.len}
    IN  [len |-> d.len,
         nz  |-> [i \in moved \cup kept |->
                    IF i \in moved THEN blob.nz[i - off] ELSE d.nz[i]]]

\* the tags written into the first frame, after its header; with no frame
\* the tags stand alone
Tagged(frames, tags) ==
    IF frames = <<>> THEN tags
    ELSE Overlay(FrameStream(frames), 4, tags)

\* the frame stream of an input: the tagged frames and the trailer
Stream(in) == Concat(Tagged(in.frames, in.tags), in.trailer)

\* the file of an input: prefix, tagged frames, trailer
FileOf(in) == Concat(in.prefix, Stream(in))

\* the variables a specification does not use stay at these values
IdleScan ==
    /\ input = [prefix |-> Zeros(0), frames |-> <<>>, tags |-> Zeros(0),
                trailer |-> Zeros(0)]
    /\ data = Zeros(0)
    /\ max_frames = 0
    /\ scan = ScanIdle

IdleParse ==
    /\ header = <<0, 0, 0, 0>>
    /\ parsed = None

ScanVars == <<input, data, max_frames, scan>>

IdleAnalyze ==
    /\ analyzer = DefaultAnalyzer
    /\ readable = TRUE
    /\ locals = NoLocals
    /\ result = None

AnalyzeVars == <<analyzer, readable, locals, result>>

IdleCompare ==
    /\ scores = <<>>
    /\ outcome = <<>>

CompareVars == <<scores, outcome>>

IdleLame ==
    /\ extracted = None
    /\ lowpass_args = <<>>
    /\ lowpass_check = None
    /\ signatures = None

LameVars == <<extracted, lowpass_args, lowpass_check, signatures>>

(***************************************************************************)
(* SpecScan: scan_frames on a prefix followed by a frame stream            *)
(***************************************************************************)
ScanInit ==
    /\ input \in [prefix : Prefixes, frames : FrameLists, tags : {Zeros(0)},
                  trailer : CutFrames]
                 \cup [prefix : {Zeros(SYNC_SEARCH_LIMIT), Zeros(SYNC_SEARCH_LIMIT + 1)}, frames : {<<<<255, 251, 144, 0>>>>},
                       tags : {Zeros(0)}, trailer : {Zeros(0)}]
    /\ data = FileOf(input)
    /\ max_frames \in 0..MaxBudget
    /\ scan = ScanIdle
    /\ pc = "scan"
    /\ IdleParse /\ IdleAnalyze /\ IdleCompare /\ IdleLame

\* the call scan_frames(reader, max_frames), up to the loop
ScanBegin ==
    /\ pc = "scan" /\ scan.status = "idle"
    /\ scan' = scan_begin(data)
    /\ UNCHANGED <<header, parsed, input, data, max_frames, AnalyzeVars, CompareVars, LameVars, pc>>

\* one pass through the while loop
ScanIter ==
    /\ pc = "scan" /\ scan.status = "loop"
    /\ scan' = scan_iter(data, scan, max_frames)
    /\ UNCHANGED <<header, parsed, input, data, max_frames, AnalyzeVars, CompareVars, LameVars, pc>>

\* the aggregate fields and the return
ScanFill ==
    /\ pc = "scan" /\ scan.status = "fill"
    /\ scan' = scan_fill(scan)
    /\ pc' = "scanned"
    /\ UNCHANGED <<header, parsed, input, data, max_frames, AnalyzeVars, CompareVars, LameVars>>

\* scan_frames returned before the loop (short stream, or Err)
ScanReturnEarly ==
    /\ pc = "scan" /\ scan.status \in {"ok", "err"}
    /\ pc' = "scanned"
    /\ UNCHANGED <<header, parsed, input, data, max_frames, scan, AnalyzeVars, CompareVars, LameVars>>

ScanNext == ScanBegin \/ ScanIter \/ ScanFill \/ ScanReturnEarly

SpecScan == ScanInit /\ [][ScanNext]_vars

\* the call runs on: a step of scan_frames that can be taken is taken
\* the streams followed to the end of the call: prefixes shorter than the
\* search limit, raw prefixes out of 0x00 and 0xFF, frames of MPEG1 Layer
\* III 128 kbps and of MPEG1 Layer I 32 kbps padded
ScanFairInit ==
    /\ ScanInit
    /\ input.prefix.len < SYNC_SEARCH_LIMIT
    /\ \A i \in DOMAIN input.frames :
          input.frames[i] \in {<<255, 251, 144, 0>>, <<255, 255, 22, 64>>}
    /\ \/ SeqOf(Slice(input.prefix, 0, 3)) = ID3
       \/ \A p \in DOMAIN input.prefix.nz : input.prefix.nz[p] = 255

SpecScanFair == ScanFairInit /\ [][ScanNext]_vars /\ WF_vars(ScanNext)

(***************************************************************************)
(* Spec: Analyzer::analyze on a file                                       *)
(***************************************************************************)
\* frame lists of the files analyzed: none; MPEG1 Layer III at 128, at 320
\* and at 128 then 160 kbps; MPEG1 Layer I at 256 then 448 kbps (sizes 256
\* and 672) and at 256 kbps twice; MPEG1 Layer III at 96 kbps; MPEG1 Layer I
\* at 448 then 32 kbps (sizes 448 and 32, 240 kbps on average)
AnalyzedFrames ==
    {<<>>,
     <<<<255, 251, 144, 0>>>>,
     <<<<255, 251, 224, 0>>>>,
     <<<<255, 251, 144, 0>>, <<255, 251, 160, 0>>>>,
     <<<<255, 255, 132, 0>>, <<255, 255, 232, 0>>>>,
     <<<<255, 255, 132, 0>>, <<255, 255, 132, 0>>>>,
     <<<<255, 251, 112, 0>>>>,
     <<<<255, 255, 228, 0>>, <<255, 255, 20, 0>>>>}

\* a Xing/Info header: marker, flags, then the fields as given
XingHeader(marker, flags, fields) ==
    Concat(Bytes(marker \o <<0, 0, 0, flags>>), fields)

\* the four optional fields in full: frames 4096, bytes 2^20, TOC, quality 100
AllXingFields ==
    Concat(Bytes(<<0, 0, 16, 0, 0, 16, 0, 0>>), Concat(Zeros(100), Bytes(<<0, 0, 0, 100>>)))

\* Xing/Info headers written: none; Xing with no field; Info with all four
\* fields; Xing announcing a TOC that is not there
XingHeaders ==
    {Zeros(0),
     XingHeader(S_Xing, 0, Zeros(0)),
     XingHeader(S_Info, 15, AllXingFields),
     XingHeader(S_Xing, 4, Zeros(0))}

\* a LAME tag: 9 version bytes, the quality/VBR byte, the lowpass byte
LameTag(version, info, lowpass_byte) == Bytes(version \o <<info, lowpass_byte>>)

\* encoder tags written after the Xing/Info header: none; LAME3.100 with
\* lowpass 16000, 20500 and 10000; LAME3.99r with the out-of-range byte 49; a LAME
\* tag whose version is not UTF-8; Lavc58.134
EncoderTags ==
    {Zeros(0),
     LameTag(<<76, 65, 77, 69, 51, 46, 49, 48, 48>>, 36, 160),
     LameTag(<<76, 65, 77, 69, 51, 46, 49, 48, 48>>, 36, 205),
     LameTag(<<76, 65, 77, 69, 51, 46, 49, 48, 48>>, 36, 100),
     LameTag(<<76, 65, 77, 69, 51, 46, 57, 57, 114>>, 0, 49),
     LameTag(<<76, 65, 77, 69, 51, 255, 0, 0, 0>>, 0, 160),
     Bytes(<<76, 97, 118, 99, 53, 56, 46, 49, 51, 52>> \o <<0, 0>>)}

\* what follows the frames: nothing, or the text "Lavf58.76", "Fraunhofer",
\* "iTunes", "LAME3.99r" or "Lavf58 Apple"
Trailers ==
    {Zeros(0),
     Bytes(<<76, 97, 118, 102, 53, 56, 46, 55, 54>>),
     Bytes(S_Fraunhofer),
     Bytes(S_iTunes),
     Bytes(<<76, 65, 77, 69, 51, 46, 57, 57, 114>>),
     Bytes(S_Lavf \o <<53, 56, 32>> \o S_Apple)}

\* the files analyzed: frames with tags in the first of them and a trailer;
\* and files of fewer than 10 bytes that begin with "ID3"
AnalyzedInputs ==
    {[prefix |-> Zeros(0), frames |-> f, tags |-> Concat(x, e), trailer |-> t] :
        f \in AnalyzedFrames, x \in XingHeaders, e \in EncoderTags, t \in Trailers}
    \cup {[prefix |-> Bytes(ID3), frames |-> <<>>, tags |-> Zeros(0), trailer |-> t] :
             t \in {Zeros(0), Bytes(S_iTunes)}}

\* the analyzers built: the default one, one that skips the spectral
\* analysis, one with higher thresholds and one with misordered thresholds
Analyzers ==
    {DefaultAnalyzer,
     AnalyzerWith(TRUE, DEFAULT_SUSPECT, DEFAULT_TRANSCODE),
     AnalyzerWith(FALSE, 50, 80),
     AnalyzerWith(FALSE, 65, 35)}

Init ==
    /\ input \in AnalyzedInputs
    /\ data = FileOf(input)
    /\ analyzer \in Analyzers
    /\ readable \in BOOLEAN
    /\ locals = NoLocals
    /\ result = None
    /\ max_frames = SCAN_FRAMES
    /\ scan = ScanIdle
    /\ pc = "read"
    /\ IdleParse /\ IdleCompare /\ IdleLame

\* std::fs::read fails: the ERROR result is returned
ReadFails ==
    /\ pc = "read" /\ ~readable
    /\ result' = Some(ErrorResult)
    /\ pc' = "done"
    /\ UNCHANGED <<header, parsed, ScanVars, analyzer, readable, locals, CompareVars, LameVars>>

\* std::fs::read succeeds; frame scan, sample rate and duration
ReadAndScan ==
    /\ pc = "read" /\ readable
    /\ locals' = WithBasicInfo(locals, BasicInfo(data))
    /\ pc' = "binary"
    /\ UNCHANGED <<header, parsed, ScanVars, analyzer, readable, result, CompareVars, LameVars>>

\* binary::analyze(&data, &mut cursor, bitrate) returns
BinaryAnalysis ==
    /\ pc = "binary"
    /\ ~Panicked(binary_analyze(data, locals.bitrate))
    /\ locals' = [locals EXCEPT !.binary_result = binary_analyze(data, locals.bitrate)]
    /\ pc' = "spectral"
    /\ UNCHANGED <<header, parsed, ScanVars, analyzer, readable, result, CompareVars, LameVars>>

\* binary::analyze panics inside LameHeader::extract: analyze returns nothing
BinaryAnalysisPanics ==
    /\ pc = "binary"
    /\ Panicked(binary_analyze(data, locals.bitrate))
    /\ pc' = "panicked"
    /\ UNCHANGED <<header, parsed, ScanVars, AnalyzeVars, CompareVars, LameVars>>

\* the spectral analysis is skipped
SpectralSkipped ==
    /\ pc = "spectral" /\ analyzer.skip_spectral
    /\ locals' = [locals EXCEPT !.spectral_result = Some(DefaultSpectralResult)]
    /\ pc' = "combine"
    /\ UNCHANGED <<header, parsed, ScanVars, analyzer, readable, result, CompareVars, LameVars>>

\* spectral::analyze(&data, sample_rate) returns some score and flags
SpectralAnalysis ==
    /\ pc = "spectral" /\ ~analyzer.skip_spectral
    /\ \E sc \in SpectralScores, fl \in SpectralFlags :
          locals' = [locals EXCEPT !.spectral_result = Some([score |-> sc, flags |-> fl])]
    /\ pc' = "combine"
    /\ UNCHANGED <<header, parsed, ScanVars, analyzer, readable, result, CompareVars, LameVars>>

\* scores combined, flags merged, verdict determined, result returned
Combine ==
    /\ pc = "combine"
    /\ result' = Some(ResultOf(analyzer, locals))
    /\ pc' = "done"
    /\ UNCHANGED <<header, parsed, ScanVars, analyzer, readable, locals, CompareVars, LameVars>>

Next ==
    \/ ReadFails
    \/ ReadAndScan
    \/ BinaryAnalysis
    \/ BinaryAnalysisPanics
    \/ SpectralSkipped
    \/ SpectralAnalysis
    \/ Combine

Spec == Init /\ [][Next]_vars

(***************************************************************************)
(* SpecParse: FrameHeader::parse applied to four bytes                     *)
(***************************************************************************)
\* the headers tried.  First byte: the sync byte and two that are not;
\* second byte: every byte with the three sync bits set, and some without;
\* third byte: every byte; fourth byte: the four channel modes, and all bits
\* set
Headers == {255, 254, 0} \X (224..255 \cup {0, 123, 192, 223}) \X (0..255)
               \X {0, 64, 128, 192, 255}

ParseInit ==
    /\ header \in Headers
    /\ parsed = None
    /\ pc = "parse"
    /\ IdleScan /\ IdleAnalyze /\ IdleCompare /\ IdleLame

\* the call FrameHeader::parse(header)
Parse ==
    /\ pc = "parse"
    /\ parsed' = parse(header)
    /\ pc' = "parsed"
    /\ UNCHANGED <<header, ScanVars, AnalyzeVars, CompareVars, LameVars>>

ParseNext == Parse

SpecParse == ParseInit /\ [][ParseNext]_vars

(***************************************************************************)
(* SpecCombine: the score combination applied to two pairs of scores       *)
(***************************************************************************)
\* the scores binary::analyze can return: sums of 35, 20 and 10
BinaryScores == {0, 10, 20, 30, 35, 45, 55, 65}

\* scores = <<b, s, b', s'>> with b <= b' and s <= s'
CombineInit ==
    /\ scores \in {<<b1, s1, b2, s2>> :
                      b1 \in BinaryScores, s1 \in SpectralScores,
                      b2 \in BinaryScores, s2 \in SpectralScores}
    /\ scores[1] <= scores[3] /\ scores[2] <= scores[4]
    /\ outcome = <<>>
    /\ pc = "compare_scores"
    /\ IdleParse /\ IdleScan /\ IdleAnalyze /\ IdleLame

\* both pairs are combined
CombineBoth ==
    /\ pc = "compare_scores"
    /\ outcome' = <<CombinedScore(scores[1], scores[2]), CombinedScore(scores[3], scores[4])>>
    /\ pc' = "scores_compared"
    /\ UNCHANGED <<header, parsed, ScanVars, AnalyzeVars, scores, LameVars>>

CombineNext == CombineBoth

SpecCombine == CombineInit /\ [][CombineNext]_vars

(***************************************************************************)
(* SpecVerdict: the verdict of two combined scores under the same          *)
(* thresholds                                                              *)
(***************************************************************************)
\* threshold values configured, in every order
Thresholds == {0, 35, 50, 65, 101}

\* scores = <<c, c'>> with c <= c'
VerdictInit ==
    /\ analyzer \in {AnalyzerWith(FALSE, s, t) : s \in Thresholds, t \in Thresholds}
    /\ scores \in {<<c1, c2>> : c1 \in 0..100, c2 \in 0..100}
    /\ scores[1] <= scores[2]
    /\ outcome = <<>>
    /\ pc = "compare_verdicts"
    /\ readable = TRUE /\ locals = NoLocals /\ result = None
    /\ IdleParse /\ IdleScan /\ IdleLame

\* both scores are judged
JudgeBoth ==
    /\ pc = "compare_verdicts"
    /\ outcome' = <<VerdictOf(analyzer, scores[1]), VerdictOf(analyzer, scores[2])>>
    /\ pc' = "verdicts_compared"
    /\ UNCHANGED <<header, parsed, ScanVars, AnalyzeVars, scores, LameVars>>

VerdictNext == JudgeBoth

SpecVerdict == VerdictInit /\ [][VerdictNext]_vars

(***************************************************************************)
(* SpecExtract: LameHeader::extract on the start of a file                 *)
(***************************************************************************)
\* what precedes the marker block: zero bytes that put it at the start of
\* the file, inside the first frame, at the edge of the first 500 bytes and
\* at the edge of the first 2048; an Info or a Xing header announcing 7
\* frames; a LAME tag with lowpass 16000
ExtractLeads ==
    {Zeros(n) : n \in {0, 36, 496, 497, 1929, 2036, 2040, 2041, 2044, 2045}}
    \cup {XingHeader(S_Info, 1, Bytes(<<0, 0, 0, 7>>)),
          XingHeader(S_Xing, 1, Bytes(<<0, 0, 0, 7>>)),
          Concat(LameTag(<<76, 65, 77, 69, 51, 46, 57, 57, 114>>, 36, 160), Zeros(20))}

\* the optional fields announced by flags, in full: frames 4096, bytes 2^20,
\* a TOC of 100 zero bytes, quality 100
FieldsFor(flags) ==
    Concat(IF BitAnd(flags, 1) # 0 THEN Bytes(<<0, 0, 16, 0>>) ELSE Zeros(0),
    Concat(IF BitAnd(flags, 2) # 0 THEN Bytes(<<0, 16, 0, 0>>) ELSE Zeros(0),
    Concat(IF BitAnd(flags, 4) # 0 THEN Zeros(100) ELSE Zeros(0),
           IF BitAnd(flags, 8) # 0 THEN Bytes(<<0, 0, 0, 100>>) ELSE Zeros(0))))

\* flags written after a marker
XingFlags == {0, 1, 2, 3, 4, 5, 8, 15}

\* the marker block: none, or a Xing or Info header with its fields in full
\* or cut off after the flags
MarkerBlocks ==
    {Zeros(0)}
    \cup {XingHeader(m, fl, FieldsFor(fl)) : m \in {S_Xing, S_Info}, fl \in XingFlags}
    \cup {XingHeader(m, fl, Zeros(0)) : m \in {S_Xing, S_Info}, fl \in XingFlags}

\* zero bytes between the marker block and the encoder tag: the tag follows
\* at once, ends with the 50-byte window, or passes its end by one byte
TagGaps == {0, 46, 47}

\* the encoder tags: those of EncoderTags, LAME tags with the lowpass bytes
\* 50, 220 and 221, and a LAME marker with nothing after it
ExtractTags ==
    EncoderTags
    \cup {LameTag(<<76, 65, 77, 69, 51, 46, 49, 48, 48>>, 36, b) : b \in {50, 220, 221}}
    \cup {Bytes(S_LAME)}

ExtractInputs ==
    {[prefix |-> l, frames |-> <<>>, tags |-> Concat(m, Concat(Zeros(g), e)),
      trailer |-> Zeros(t)] :
        l \in ExtractLeads, m \in MarkerBlocks, g \in TagGaps, e \in ExtractTags,
        t \in {0, 100}}

ExtractInit ==
    /\ input \in ExtractInputs
    /\ data = FileOf(input)
    /\ max_frames = 0
    /\ scan = ScanIdle
    /\ extracted = None
    /\ lowpass_args = <<>>
    /\ lowpass_check = None
    /\ signatures = None
    /\ pc = "extract"
    /\ IdleParse /\ IdleAnalyze /\ IdleCompare

\* the call LameHeader::extract(data) returns None or Some(header)
Extract ==
    /\ pc = "extract"
    /\ ~Panicked(extract(data))
    /\ extracted' = extract(data)
    /\ pc' = "extracted"
    /\ UNCHANGED <<header, parsed, ScanVars, AnalyzeVars, CompareVars, lowpass_args,
                   lowpass_check, signatures>>

\* the call panics: the slice searched for the LAME marker starts after its end
ExtractPanics ==
    /\ pc = "extract"
    /\ Panicked(extract(data))
    /\ pc' = "panicked"
    /\ UNCHANGED <<header, parsed, ScanVars, AnalyzeVars, CompareVars, LameVars>>

ExtractNext == Extract \/ ExtractPanics

SpecExtract == ExtractInit /\ [][ExtractNext]_vars

(***************************************************************************)
(* SpecLowpass: check_lowpass_mismatch on a bitrate and a lowpass          *)
(***************************************************************************)
\* the bitrates tried: every bitrate of the tables, the bounds of the
\* lowpass tables and their neighbours, 0 and a bitrate above every bound
LowpassBitrates ==
    {0, 8, 16, 24, 32, 40, 48, 56, 64, 80, 95, 96, 111, 112, 127, 128, 144, 159, 160,
     176, 191, 192, 223, 224, 255, 256, 288, 319, 320, 321, 352, 384, 416, 448, 1000}

\* the lowpass values tried: 0, every value a LAME tag can carry, the
\* minimums and their neighbours, and a value above every minimum
Lowpasses ==
    {0, 1} \cup {b * 100 : b \in 50..220}
    \cup {14999, 15001, 15999, 16001, 16999, 17001, 17999, 18001, 48000}

LowpassInit ==
    /\ lowpass_args \in LowpassBitrates \X Lowpasses
    /\ lowpass_check = None
    /\ extracted = None
    /\ signatures = None
    /\ pc = "check_lowpass"
    /\ IdleParse /\ IdleScan /\ IdleAnalyze /\ IdleCompare

\* the call check_lowpass_mismatch(bitrate, actual_lowpass)
CheckLowpass ==
    /\ pc = "check_lowpass"
    /\ lowpass_check' = Some(check_lowpass_mismatch(lowpass_args[1], lowpass_args[2]))
    /\ pc' = "lowpass_checked"
    /\ UNCHANGED <<header, parsed, ScanVars, AnalyzeVars, CompareVars, extracted,
                   lowpass_args, signatures>>

LowpassNext == CheckLowpass

SpecLowpass == LowpassInit /\ [][LowpassNext]_vars

(***************************************************************************)
(* Claims about the scores, the verdict and the encoder                    *)
(***************************************************************************)
\* analyze has returned a result other than the ERROR result
Returned == pc = "done" /\ result.some /\ result.val.verdict # "ERROR"

\* binary::analyze has just returned to analyze
BinaryReturned == pc = "spectral" /\ locals.binary_result.some

\* C1: every result that is not the ERROR result has combined_score =
\* min(100, binary_score + spectral_score + bonus), bonus being 15 exactly
\* when spectral_score >= 30 and binary_score >= 20 and 0 otherwise, the two
\* scores being those binary::analyze and the spectral analysis returned;
\* so combined_score is in 0..100
C1_CombinedScoreFormula ==
    Returned =>
        /\ result.val.binary_score = locals.binary_result.val.score
        /\ result.val.spectral_score = locals.spectral_result.val.score
        /\ LET bonus == IF result.val.spectral_score >= 30 /\ result.val.binary_score >= 20
                         THEN 15 ELSE 0
               sum   == result.val.binary_score + result.val.spectral_score + bonus
           IN  result.val.combined_score = IF sum > 100 THEN 100 ELSE sum
        /\ result.val.combined_score \in 0..100

\* a result whose sum with the bonus passes 100 and is clamped
C1_Witness_BonusAndClamp ==
    /\ Returned
    /\ result.val.binary_score >= 20 /\ result.val.spectral_score >= 30
    /\ result.val.binary_score + result.val.spectral_score + 15 > 100
    /\ result.val.combined_score = 100

\* C2: the verdict of a file read is TRANSCODE if combined_score >= the
\* transcode threshold, else SUSPECT if it is >= the suspect threshold, else
\* OK; with the default thresholds: OK for 0..34, SUSPECT for 35..64,
\* TRANSCODE for 65..100
C2_VerdictThresholds ==
    Returned =>
        /\ (result.val.verdict = "TRANSCODE")
              <=> (result.val.combined_score >= analyzer.transcode_threshold)
        /\ (result.val.verdict = "SUSPECT")
              <=> (/\ result.val.combined_score < analyzer.transcode_threshold
                   /\ result.val.combined_score >= analyzer.suspect_threshold)
        /\ (result.val.verdict = "OK")
              <=> (/\ result.val.combined_score < analyzer.transcode_threshold
                   /\ result.val.combined_score < analyzer.suspect_threshold)
        /\ (analyzer.suspect_threshold = 35 /\ analyzer.transcode_threshold = 65) =>
              /\ (result.val.combined_score \in 0..34) => result.val.verdict = "OK"
              /\ (result.val.combined_score \in 35..64) => result.val.verdict = "SUSPECT"
              /\ (result.val.combined_score \in 65..100) => result.val.verdict = "TRANSCODE"

\* a result at the transcode threshold of the default analyzer
C2_Witness_AtTranscodeThreshold ==
    /\ Returned
    /\ analyzer = DefaultAnalyzer
    /\ result.val.combined_score = 65
    /\ result.val.verdict = "TRANSCODE"

\* OK < SUSPECT < TRANSCODE
VerdictRank(v) == IF v = "OK" THEN 0 ELSE IF v = "SUSPECT" THEN 1 ELSE 2

\* C3: for every pair of thresholds, misordered ones included, and every two
\* combined scores c <= c', the verdict for c' is not weaker than the
\* verdict for c
C3_VerdictMonotone ==
    (pc = "verdicts_compared") => VerdictRank(outcome[1]) <= VerdictRank(outcome[2])

\* misordered thresholds under which the two scores get different verdicts
C3_Witness_MisorderedThresholds ==
    /\ pc = "verdicts_compared"
    /\ analyzer.suspect_threshold > analyzer.transcode_threshold
    /\ scores[1] < analyzer.transcode_threshold
    /\ scores[2] >= analyzer.suspect_threshold
    /\ outcome = <<"OK", "TRANSCODE">>

\* C4: for binary scores b <= b' and spectral scores s <= s' in 0..100, the
\* combined score of (b', s') is not lower than the combined score of (b, s)
C4_ScoreMonotone ==
    (pc = "scores_compared") => outcome[1] <= outcome[2]

\* the second pair earns the agreement bonus and the first does not
C4_Witness_BonusGained ==
    /\ pc = "scores_compared"
    /\ scores[1] < 20 /\ scores[3] >= 20
    /\ scores[2] = scores[4] /\ scores[2] >= 30
    /\ outcome[2] = scores[3] + scores[4] + 15
    /\ outcome[1] = scores[1] + scores[2]

\* the rules of binary::analyze, from the header extracted, the signature
\* count and the frame scan of the file
R1 ==
    /\ extract(data).some /\ extract(data).val.lowpass.some
    /\ check_lowpass_mismatch(locals.bitrate, extract(data).val.lowpass.val).is_suspicious

R2 == count_encoder_signatures(data) > 1

R3 ==
    /\ locals.bitrate >= 256
    /\ scan_frames(data, SCAN_FRAMES).status = "ok"
    /\ FrameSizeCvOver15(scan_frames(data, SCAN_FRAMES).stats.frame_sizes)

\* C5: binary::analyze returns score = 35*[R1] + 20*[R2] + 10*[R3] and
\* exactly the flags of the rules that fired, in the order
\* lowpass_mismatch(<lowpass>Hz), multi_encoder_sigs, irregular_frames
C5_BinaryScoreAndFlags ==
    BinaryReturned =>
        /\ locals.binary_result.val.score =
              (IF R1 THEN 35 ELSE 0) + (IF R2 THEN 20 ELSE 0) + (IF R3 THEN 10 ELSE 0)
        /\ locals.binary_result.val.flags =
              (IF R1 THEN <<<<"lowpass_mismatch", extract(data).val.lowpass.val>>>> ELSE <<>>)
                  \o (IF R2 THEN <<<<"multi_encoder_sigs">>>> ELSE <<>>)
                  \o (IF R3 THEN <<<<"irregular_frames">>>> ELSE <<>>)

\* all three rules fired
C5_Witness_AllRulesFired ==
    /\ BinaryReturned
    /\ R1 /\ R2 /\ R3
    /\ locals.binary_result.val.score = 65
    /\ Len(locals.binary_result.val.flags) = 3

\* the encoder named by the signature scan
SignatureEncoder(sigs) ==
    IF sigs.lame.some THEN sigs.lame.val
    ELSE IF sigs.fraunhofer THEN S_Fraunhofer
    ELSE IF sigs.itunes THEN S_iTunes
    ELSE IF sigs.ffmpeg THEN S_FFmpeg
    ELSE S_unknown

\* C6 as claimed: the encoder of a result is LameHeader.encoder when a header
\* is present with a non-empty encoder; otherwise (header absent, or present
\* with an empty encoder) it is the encoder named by the signature scan
EncoderAsClaimed(lh, sigs) ==
    IF lh.some /\ lh.val.encoder # <<>> THEN lh.val.encoder ELSE SignatureEncoder(sigs)

C6_EncoderSelection_AsClaimed ==
    Returned => result.val.encoder = EncoderAsClaimed(extract(data), scan_encoder_signatures(data))

\* C6: the encoder of a result is LameHeader.encoder when a header is present
\* with a non-empty encoder, "LAME" when a header is present with an empty
\* encoder, and the encoder named by the signature scan when no header is
\* present
EncoderAmended(lh, sigs) ==
    IF lh.some THEN (IF lh.val.encoder # <<>> THEN lh.val.encoder ELSE S_LAME)
    ELSE SignatureEncoder(sigs)

C6_EncoderSelection ==
    Returned => result.val.encoder = EncoderAmended(extract(data), scan_encoder_signatures(data))

\* a header with an empty encoder in a file that bears a Fraunhofer signature
C6_Witness_EmptyEncoderWithSignature ==
    /\ Returned
    /\ extract(data).some /\ extract(data).val.encoder = <<>>
    /\ scan_encoder_signatures(data).fraunhofer
    /\ result.val.encoder = S_LAME

(***************************************************************************)
(* Header fields read straight from the bits, for the parser's claims      *)
(***************************************************************************)
SyncBitsSet(h)  == h[1] = 255 /\ h[2] \div 32 = 7
VersionBits(h)  == (h[2] \div 8) % 4
LayerBits(h)    == (h[2] \div 2) % 4
BitrateIdx(h)   == h[3] \div 16
SampleRateIdx(h) == (h[3] \div 4) % 4
PaddingBit(h)   == (h[3] \div 2) % 2
ChannelBits(h)  == h[4] \div 64

WellFormed(h) ==
    /\ SyncBitsSet(h)
    /\ VersionBits(h) # 1
    /\ LayerBits(h) # 0
    /\ BitrateIdx(h) \notin {0, 15}
    /\ SampleRateIdx(h) # 3

\* C7: FrameHeader::parse accepts four bytes iff the first 11 bits are all
\* ones, version_bits # 1, layer_bits # 0, bitrate_idx is neither 0 nor 15 and
\* sr_idx # 3; a rejected input yields None, never a partial header.
C7_ParseAcceptsIffWellFormed ==
    pc = "parsed" =>
        /\ parsed.some <=> WellFormed(header)
        /\ ~parsed.some => parsed = None

\* C7 witness: a header rejected for its sample-rate index alone.
C7_Witness_OnlySampleRateReserved ==
    /\ pc = "parsed"
    /\ SyncBitsSet(header) /\ VersionBits(header) # 1 /\ LayerBits(header) # 0
    /\ BitrateIdx(header) \notin {0, 15}
    /\ SampleRateIdx(header) = 3
    /\ parsed = None

\* C8 (as claimed): for every accepted header frame_size is
\* (12*bitrate*1000/sample_rate + (padding ? 1 : 0)) * 4 for Layer I and
\* 144*bitrate*1000/sample_rate + (padding ? 1 : 0) for Layer II and III.
C8_FrameSizeFormula ==
    (pc = "parsed" /\ parsed.some) =>
        LET f   == parsed.val
            pad == IF f.padding THEN 1 ELSE 0
        IN  f.frame_size =
                IF f.layer = "Layer1"
                THEN ((12 * f.bitrate * 1000) \div f.sample_rate + pad) * 4
                ELSE (144 * f.bitrate * 1000) \div f.sample_rate + pad

\* the bitrate tables of the format, by version family and layer
C9_RefBitrates(mpeg1, layerBits) ==
    IF mpeg1 /\ layerBits = 3
    THEN <<0, 32, 64, 96, 128, 160, 192, 224, 256, 288, 320, 352, 384, 416, 448, 0>>
    ELSE IF mpeg1 /\ layerBits = 2
    THEN <<0, 32, 48, 56, 64, 80, 96, 112, 128, 160, 192, 224, 256, 320, 384, 0>>
    ELSE IF mpeg1
    THEN <<0, 32, 40, 48, 56, 64, 80, 96, 112, 128, 160, 192, 224, 256, 320, 0>>
    ELSE IF layerBits = 3
    THEN <<0, 32, 48, 56, 64, 80, 96, 112, 128, 144, 160, 176, 192, 224, 256, 0>>
    ELSE <<0, 8, 16, 24, 32, 40, 48, 56, 64, 80, 96, 112, 128, 144, 160, 0>>

C9_RefSampleRates(versionBits) ==
    IF versionBits = 3 THEN <<44100, 48000, 32000, 0>>
    ELSE IF versionBits = 2 THEN <<22050, 24000, 16000, 0>>
    ELSE <<11025, 12000, 8000, 0>>

\* C9: for every accepted header the decoded fields equal the reference
\* decode of the header bits: version and layer from byte 1, bitrate from the
\* (version family, layer) table at bitrate_idx, sample rate from the
\* version's table at sr_idx, padding from bit 0x02 of byte 2, channel mode
\* from the top two bits of byte 3, and samples_per_frame 384 for Layer I,
\* 1152 for Layer II and MPEG1 Layer III, 576 for MPEG2/2.5 Layer III.
C9_FieldsMatchReferenceDecode ==
    (pc = "parsed" /\ parsed.some) =>
        LET f  == parsed.val
            vb == VersionBits(header)
            lb == LayerBits(header)
        IN  /\ f.version = (IF vb = 3 THEN "Mpeg1" ELSE IF vb = 2 THEN "Mpeg2" ELSE "Mpeg25")
            /\ f.layer = (IF lb = 3 THEN "Layer1" ELSE IF lb = 2 THEN "Layer2" ELSE "Layer3")
            /\ f.bitrate = C9_RefBitrates(vb = 3, lb)[BitrateIdx(header) + 1]
            /\ f.sample_rate = C9_RefSampleRates(vb)[SampleRateIdx(header) + 1]
            /\ f.padding = (PaddingBit(header) = 1)
            /\ f.channel_mode =
                   <<"Stereo", "JointStereo", "DualChannel", "Mono">>[ChannelBits(header) + 1]
            /\ f.samples_per_frame =
                   (IF lb = 3 THEN 384
                    ELSE IF lb = 2 THEN 1152
                    ELSE IF vb = 3 THEN 1152 ELSE 576)

\* C9 witness: an accepted MPEG2.5 Layer III header, mono, with padding.
C9_Witness_Mpeg25Layer3 ==
    /\ pc = "parsed" /\ parsed.some
    /\ VersionBits(header) = 0 /\ LayerBits(header) = 1
    /\ PaddingBit(header) = 1 /\ ChannelBits(header) = 3
    /\ parsed.val.samples_per_frame = 576

(***************************************************************************)
(* Claims about the scan                                                   *)
(***************************************************************************)
\* no 4-byte window lying inside d is an acceptable frame header
NoHeaderInside(d) == \A p \in 0..(d.len - 4) : ~parse(Window4(d, p)).some

\* no 4-byte window of d starting before offset k is an acceptable frame header
NoHeaderStartingBefore(d, k) ==
    \A p \in 0..(k - 1) : p + 4 <= d.len => ~parse(Window4(d, p)).some

BeginsWithID3(d) == d.len >= 3 /\ <<ByteAt(d, 0), ByteAt(d, 1), ByteAt(d, 2)>> = ID3

\* scan_frames found on prefix+F what it finds on F alone, the first frame
\* at offset K, and find_sync returns K
ResyncedAtPrefixEnd ==
    /\ scan.status = "ok"
    /\ scan.stats.frame_count = scan_frames(Stream(input), max_frames).stats.frame_count
    /\ scan.offsets # <<>> /\ scan.offsets[1] = input.prefix.len
    /\ find_sync(data) = [ok |-> TRUE, pos |-> Some(input.prefix.len)]

\* C10 (as claimed): for every valid frame stream F and every prefix of K
\* bytes in which no 4-byte window is an acceptable frame header, scan_frames
\* on prefix+F with a sufficient budget returns the frame_count of F alone and
\* the first frame recorded, and the offset find_sync returns, is at K.
C10_ScanResync_AsClaimed ==
    (/\ pc = "scanned"
     /\ input.frames # <<>>
     /\ max_frames >= Len(input.frames)
     /\ NoHeaderInside(input.prefix))
    => ResyncedAtPrefixEnd

\* C10 (amended): the same, for every prefix of K <= 10000 bytes such that
\* prefix+F does not begin with "ID3" and no 4-byte window of prefix+F that
\* starts inside the prefix is an acceptable frame header.
C10_ScanResync ==
    (/\ pc = "scanned"
     /\ input.frames # <<>>
     /\ max_frames >= Len(input.frames)
     /\ input.prefix.len <= SYNC_SEARCH_LIMIT
     /\ ~BeginsWithID3(data)
     /\ NoHeaderStartingBefore(data, input.prefix.len))
    => ResyncedAtPrefixEnd

\* C10 witness: two frames found behind two prepended bytes, the first 0xFF.
C10_Witness_ResyncAfterPrefix ==
    /\ pc = "scanned"
    /\ input.prefix.len = MaxPrefixLen /\ ByteAt(input.prefix, 0) = 255
    /\ Len(input.frames) = 2 /\ max_frames >= 2
    /\ ~BeginsWithID3(data)
    /\ NoHeaderStartingBefore(data, input.prefix.len)
    /\ scan.stats.frame_count = 2
    /\ scan.offsets[1] = input.prefix.len

(***************************************************************************)
(* Claims about the ID3v2 skip, the aggregates and the end of the scan     *)
(***************************************************************************)
\* the syncsafe integer of four size bytes: the low 7 bits of each
SyncsafeValue(b) ==
    (b[1] % 128) * 2097152 + (b[2] % 128) * 16384 + (b[3] % 128) * 128 + (b[4] % 128)

\* d is a whole ID3v2 tag: "ID3", ten header bytes, a body of the declared size
WholeId3Tag(d) ==
    /\ d.len >= 10 /\ BeginsWithID3(d)
    /\ d.len = 10 + SyncsafeValue(Window4(d, 6))

\* C11: for a frame stream F behind an ID3v2 tag whose size bytes decode as
\* the syncsafe integer S and whose body has S bytes, scan_frames returns
\* the FrameStats it returns on F alone, and the first frame recorded was
\* read at offset 10 + S
C11_Id3v2Skip ==
    (pc = "scanned" /\ WholeId3Tag(input.prefix)) =>
        /\ scan.status = "ok"
        /\ scan_frames(Stream(input), max_frames).status = "ok"
        /\ scan.stats = scan_frames(Stream(input), max_frames).stats
        /\ (input.frames # <<>> /\ max_frames > 0) => scan.offsets # <<>>
        /\ scan.offsets # <<>> =>
              scan.offsets[1] = 10 + SyncsafeValue(Window4(input.prefix, 6))

\* two frames found behind a tag of 130 body bytes whose size bytes have
\* their high bits set
C11_Witness_HighBitsIgnored ==
    /\ pc = "scanned" /\ WholeId3Tag(input.prefix)
    /\ Window4(input.prefix, 6) = <<0, 0, 129, 130>>
    /\ Len(input.frames) = 2
    /\ scan.stats.frame_count >= 2
    /\ scan.offsets[1] = 140

\* C12: after scan_frames returns, is_vbr is true iff at least two distinct
\* bitrates were recorded, avg_bitrate is the truncating integer mean of
\* the recorded bitrates, min_bitrate and max_bitrate are their extremes;
\* with no frame recorded frame_count, avg, min and max are 0 and is_vbr is
\* false (bitrate sums stay below 2^32)
C12_Aggregates ==
    (pc = "scanned" /\ scan.status = "ok") =>
        LET st       == scan.stats
            recorded == {st.bitrates[i] : i \in DOMAIN st.bitrates}
        IN  /\ st.frame_count = Len(st.bitrates)
            /\ st.is_vbr <=> Cardinality(recorded) >= 2
            /\ st.bitrates # <<>> =>
                  /\ st.avg_bitrate * Len(st.bitrates) <= SeqSum(st.bitrates)
                  /\ SeqSum(st.bitrates) < (st.avg_bitrate + 1) * Len(st.bitrates)
                  /\ st.min_bitrate \in recorded /\ st.max_bitrate \in recorded
                  /\ \A b \in recorded : st.min_bitrate <= b /\ b <= st.max_bitrate
            /\ st.bitrates = <<>> =>
                  /\ st.frame_count = 0 /\ st.avg_bitrate = 0
                  /\ st.min_bitrate = 0 /\ st.max_bitrate = 0
                  /\ ~st.is_vbr

\* three frames of 128, 160 and 128 kbps: the mean 138.67 is truncated
C12_Witness_TruncatedMean ==
    /\ pc = "scanned" /\ scan.status = "ok"
    /\ scan.stats.bitrates = <<128, 160, 128>>
    /\ scan.stats.is_vbr
    /\ scan.stats.avg_bitrate = 138
    /\ scan.stats.min_bitrate = 128 /\ scan.stats.max_bitrate = 160

\* C13: on every finite stream and for every max_frames the scan_frames
\* loop terminates; it is left only when frame_count = max_frames or fewer
\* than four bytes remain to be read; frame_count never exceeds max_frames
C13_ScanTerminates ==
    /\ <>(pc = "scanned")
    /\ [][(scan.status = "loop" /\ scan'.status # "loop") =>
             (scan.stats.frame_count = max_frames \/ scan.pos + 4 > data.len)]_vars
    /\ [](scan.stats.frame_count <= max_frames)

\* the loop left on the frame budget with whole frames still unread
C13_Witness_StoppedByBudget ==
    /\ pc = "scanned" /\ scan.status = "ok"
    /\ max_frames = 1 /\ scan.stats.frame_count = 1
    /\ Len(input.frames) = 2
    /\ scan.pos + 4 <= data.len

\* C14: scan_frames returns Ok(FrameStats) and never an error, whatever the
\* stream: empty, shorter than 4 bytes, "ID3" cut before or inside the size
\* field, an ID3v2 size pointing past the end, or cut inside a frame
C14_ScanNeverErr ==
    (pc = "scanned") => scan.status = "ok"

(***************************************************************************)
(* Claims about LameHeader::extract                                        *)
(***************************************************************************)
\* needle occurs in d at offset p
Occurs(d, needle, p) ==
    /\ p + Len(needle) <= d.len
    /\ \A i \in 1..Len(needle) : ByteAt(d, p + i - 1) = needle[i]

\* the first offset at which needle (whose first byte is not 0) occurs in d
FirstOccurrence(d, needle) ==
    IF \E p \in DOMAIN d.nz : Occurs(d, needle, p)
    THEN Some(CHOOSE p \in DOMAIN d.nz :
                /\ Occurs(d, needle, p)
                /\ \A q \in DOMAIN d.nz : q < p => ~Occurs(d, needle, q))
    ELSE None

\* the first 2048 bytes of the file
SearchWindow == Slice(data, 0, 2048)

\* the marker of the claims: the first "Xing" if there is one, else the
\* first "Info"
MarkerOf(w) ==
    IF FirstOccurrence(w, S_Xing).some THEN FirstOccurrence(w, S_Xing)
    ELSE FirstOccurrence(w, S_Info)

\* bit k of the flags that follow the marker at m
FlagBit(w, m, k) == (ByteAt(w, m + 7) \div Pow2(k)) % 2

\* where the optional fields announced by the flags end
AnnouncedEnd(w, m) ==
    m + 8 + 4 * FlagBit(w, m, 0) + 4 * FlagBit(w, m, 1) + 100 * FlagBit(w, m, 2)
        + 4 * FlagBit(w, m, 3)

\* C15: LameHeader::extract completes with a header or 'absent' on every
\* byte sequence, also when the fields announced by the Xing/Info flags or
\* the LAME sub-block pass the end of the search window
C15_ExtractCompletes ==
    pc # "panicked"

\* C16: the marker used is the first "Xing" of the first 2048 bytes when
\* there is one, even behind an "Info", else the first "Info": the frame
\* count is the one read 8 bytes after that marker; a returned header has
\* is_vbr_header = true iff "Xing" was used
C16_MarkerChoice ==
    (pc = "extracted") =>
        LET w == SearchWindow
            m == MarkerOf(w)
        IN  /\ extracted.some =>
                  (extracted.val.is_vbr_header <=> FirstOccurrence(w, S_Xing).some)
            /\ (m.some /\ m.val + 12 <= w.len) =>
                  /\ extracted.some
                  /\ extracted.val.total_frames =
                        IF FlagBit(w, m.val, 0) = 1 THEN Some(BeU32(w, m.val + 8))
                        ELSE None

\* an "Info" announcing 7 frames ahead of a "Xing" announcing 4096
C16_Witness_XingBehindInfo ==
    /\ pc = "extracted" /\ extracted.some
    /\ FirstOccurrence(SearchWindow, S_Info) = Some(0)
    /\ BeU32(SearchWindow, 8) = 7
    /\ FirstOccurrence(SearchWindow, S_Xing) = Some(12)
    /\ extracted.val.is_vbr_header
    /\ extracted.val.total_frames = Some(4096)

\* C17: for a marker at p whose flags lie inside the window, total_frames
\* is the big-endian u32 at p + 8 iff bit 0 is set, total_bytes is the next
\* big-endian u32 iff bit 1 is set, and the LAME/Lavc marker is searched
\* only in the 50 bytes starting at p + 8 + 4*b0 + 4*b1 + 100*b2 + 4*b3: a
\* "LAME" there gives the VBR method, and with neither marker there the
\* header has no encoder and no lowpass
C17_FieldOrder ==
    (/\ pc \in {"extracted", "panicked"}
     /\ MarkerOf(SearchWindow).some
     /\ MarkerOf(SearchWindow).val + 8 <= SearchWindow.len) =>
        LET w     == SearchWindow
            m     == MarkerOf(w).val
            start == AnnouncedEnd(w, m)
        IN  /\ pc = "extracted" /\ extracted.some
            /\ extracted.val.total_frames =
                  IF FlagBit(w, m, 0) = 1 THEN Some(BeU32(w, m + 8)) ELSE None
            /\ extracted.val.total_bytes =
                  IF FlagBit(w, m, 1) = 1 THEN Some(BeU32(w, m + 8 + 4 * FlagBit(w, m, 0)))
                  ELSE None
            /\ LET win  == Slice(w, start, start + 50)
                   lame == FirstOccurrence(win, S_LAME)
               IN  /\ (lame.some /\ start + lame.val + 9 < w.len) =>
                         extracted.val.vbr_method.some
                   /\ (~lame.some /\ ~FirstOccurrence(win, S_Lavc).some) =>
                         /\ extracted.val.encoder = <<>>
                         /\ extracted.val.lowpass = None
                         /\ extracted.val.vbr_method = None

\* a "LAME" or "Lavc" marker lies in the 50 bytes after the fields of the
\* marker at m (no such bytes when the flags pass the end of the window)
TagAfterFields(w, m) ==
    /\ m + 8 <= w.len
    /\ LET start == AfterXingFields(w, BeU32(w, m + 4), m)
           win   == Slice(w, start, start + 50)
       IN  FirstOccurrence(win, S_LAME).some \/ FirstOccurrence(win, S_Lavc).some

\* C18: the search for "LAME" in the first 500 bytes is made only when no
\* Xing/Info marker was found: with a marker, encoder and lowpass come only
\* from a LAME/Lavc marker in the 50 bytes after the fields; with neither a
\* marker nor a "LAME" in the first 500 bytes the result is 'absent'
C18_FallbackOnlyWithoutMarker ==
    (pc = "extracted") =>
        LET w == SearchWindow
            m == MarkerOf(w)
        IN  /\ (m.some /\ ~TagAfterFields(w, m.val)) =>
                  /\ extracted.some
                  /\ extracted.val.encoder = <<>>
                  /\ extracted.val.lowpass = None
            /\ (~m.some /\ ~FirstOccurrence(Slice(w, 0, 500), S_LAME).some) =>
                  extracted = None

\* the "LAME" marker a returned header was filled from, if any: the first in
\* the 50 bytes after the fields; with no "LAME" and no "Lavc" there, or with
\* no marker or flags, the first in the first 500 bytes
LameMarkerUsed(w) ==
    LET m      == MarkerOf(w)
        start  == AfterXingFields(w, BeU32(w, m.val + 4), m.val)
        win    == Slice(w, start, start + 50)
        behind == FirstOccurrence(win, S_LAME)
    IN  IF m.some /\ m.val + 8 <= w.len /\ behind.some THEN Some(start + behind.val)
        ELSE IF m.some /\ m.val + 8 <= w.len /\ FirstOccurrence(win, S_Lavc).some
        THEN None
        ELSE FirstOccurrence(Slice(w, 0, 500), S_LAME)

\* C19: in every header returned, lowpass is present iff a "LAME" marker was
\* used, the byte 10 positions after it lies inside the window and is in
\* 50..220; then lowpass = that byte * 100, a multiple of 100 in
\* 5000..22000; a header built from a "Lavc" marker carries no lowpass
C19_LowpassRange ==
    (pc = "extracted" /\ extracted.some) =>
        LET w    == SearchWindow
            used == LameMarkerUsed(w)
            lp   == extracted.val.lowpass
        IN  /\ lp.some <=> (/\ used.some
                            /\ used.val + 10 < w.len
                            /\ ByteAt(w, used.val + 10) \in 50..220)
            /\ lp.some =>
                  /\ lp.val = ByteAt(w, used.val + 10) * 100
                  /\ lp.val % 100 = 0
                  /\ lp.val >= 5000 /\ lp.val <= 22000
            /\ ~used.some => ~lp.some

\* a LAME tag whose lowpass byte is the largest accepted, 220
C19_Witness_LargestLowpass ==
    /\ pc = "extracted" /\ extracted.some
    /\ LameMarkerUsed(SearchWindow).some
    /\ ByteAt(SearchWindow, LameMarkerUsed(SearchWindow).val + 10) = 220
    /\ extracted.val.lowpass = Some(22000)

(***************************************************************************)
(* Claims about the lowpass rule                                           *)
(***************************************************************************)
\* the minimum lowpass of the claim
MinimumFor(b) ==
    IF b >= 256 THEN 18000 ELSE IF b >= 192 THEN 17000 ELSE IF b >= 160 THEN 16000
    ELSE IF b >= 128 THEN 15000 ELSE 0

\* the expected lowpass of the claim: <<bound, value>> rows, first match wins
ExpectedRows ==
    <<<<320, 20500>>, <<256, 20000>>, <<224, 19500>>, <<192, 18500>>, <<160, 17500>>,
      <<128, 16000>>, <<112, 15500>>, <<96, 15000>>, <<0, 14000>>>>

ExpectedFor(b) ==
    ExpectedRows[CHOOSE i \in DOMAIN ExpectedRows :
                    /\ b >= ExpectedRows[i][1]
                    /\ \A j \in 1..(i - 1) : b < ExpectedRows[j][1]][2]

\* C20: check_lowpass_mismatch(b, lp) is suspicious iff minimum(b) > 0 and
\* lp > 0 and lp < minimum(b), minimum(b) being 18000, 17000, 16000, 15000
\* for b >= 256, 192, 160, 128 and 0 otherwise; the expected value returned
\* is 20500/20000/19500/18500/17500/16000/15500/15000 for b >= 320/256/224/
\* 192/160/128/112/96 and 14000 otherwise; a reason is returned iff it is
\* suspicious
C20_LowpassMismatch ==
    (pc = "lowpass_checked") =>
        LET b  == lowpass_args[1]
            lp == lowpass_args[2]
            r  == lowpass_check.val
        IN  /\ r.is_suspicious <=> (MinimumFor(b) > 0 /\ lp > 0 /\ lp < MinimumFor(b))
            /\ r.expected = ExpectedFor(b)
            /\ r.reason.some <=> r.is_suspicious

\* 320 kbps with a lowpass just under its minimum of 18000
C20_Witness_JustUnderMinimum ==
    /\ pc = "lowpass_checked"
    /\ lowpass_args = <<320, 17999>>
    /\ lowpass_check.val.is_suspicious
    /\ lowpass_check.val.expected = 20500
    /\ lowpass_check.val.reason.some

(***************************************************************************)
(* C21: the likely-source label of a suspicious lowpass                    *)
(***************************************************************************)
\* the label read off the table of lowpass bounds, each bound inclusive
SourceLabels ==
    <<<<11000, "64kbps or lower">>, <<14000, "96kbps">>, <<16000, "128kbps">>,
      <<17500, "160kbps">>, <<18500, "192kbps">>>>

LabelFor(lp) ==
    IF \E i \in DOMAIN SourceLabels : lp <= SourceLabels[i][1]
    THEN LET i == CHOOSE j \in DOMAIN SourceLabels :
                      /\ lp <= SourceLabels[j][1]
                      /\ \A k \in 1..(j - 1) : lp > SourceLabels[k][1]
         IN  SourceLabels[i][2]
    ELSE "lower bitrate"

\* C21: when check_lowpass_mismatch is suspicious, its reason carries the
\* actual lowpass and a label that depends on that lowpass only: the label of
\* the first bound of 11000, 14000, 16000, 17500, 18500 the lowpass does not
\* exceed, whatever the bitrate.
C21_LikelySourceLabel ==
    (pc = "lowpass_checked" /\ lowpass_check.val.is_suspicious) =>
        /\ lowpass_check.val.reason.some
        /\ lowpass_check.val.reason.val = <<lowpass_args[2], LabelFor(lowpass_args[2])>>

\* 320 kbps with a lowpass of exactly 16000 is labelled 128kbps
C21_Witness_BoundIsInclusive ==
    /\ pc = "lowpass_checked"
    /\ lowpass_args = <<320, 16000>>
    /\ lowpass_check.val.is_suspicious
    /\ lowpass_check.val.reason.val[2] = "128kbps"

(***************************************************************************)
(* SpecSignatures: count_encoder_signatures on a file of text blocks       *)
(***************************************************************************)
\* the blocks a file is put together from: the signature strings, parts of
\* them, and "LAME" followed by the bytes a tag or a text can carry
SigBlocks ==
    {Zeros(0), Bytes(S_LAME), Bytes(S_Fraunhofer), Bytes(S_FhG), Bytes(S_iTunes),
     Bytes(S_Lavf), Bytes(S_Apple), Bytes(S_libmp3lame), Bytes(S_Xing), Bytes(S_Info),
     Bytes(S_FFmpeg),
     Bytes(<<76, 97, 118>>),                               \* "Lav"
     Bytes(<<105, 84, 117, 110, 101>>),                    \* "iTune"
     Bytes(<<255>> \o S_Lavf \o <<53, 56>>),               \* "\xFFLavf58"
     Bytes(S_FhG \o <<32>> \o S_iTunes),                   \* "FhG iTunes"
     Bytes(S_LAME \o <<51, 46, 57, 57, 32>> \o S_Lavf),    \* "LAME3.99 Lavf"
     LameTag(<<76, 65, 77, 69, 51, 46, 49, 48, 48>>, 36, 160),  \* "LAME3.100$\xA0"
     LameTag(<<76, 65, 77, 69, 51, 46, 57, 57, 114>>, 36, 100), \* "LAME3.99r$d"
     LameTag(<<76, 65, 77, 69, 51, 46, 49, 48, 48>>, 68, 50),   \* "LAME3.100D2"
     Bytes(S_LAME \o <<255>>),                             \* "LAME\xFF"
     Bytes(S_LAME \o <<32, 51>>),                          \* "LAME 3"
     Bytes(<<120>> \o S_LAME \o <<45, 51>>),               \* "xLAME-3"
     Bytes(S_LAME \o [i \in 1..21 |-> 97]),                \* "LAME" and 21 "a"
     Bytes(S_LAME \o [i \in 1..15 |-> 97] \o <<195, 169>>), \* "é" across byte 20
     Bytes(S_LAME \o [i \in 1..14 |-> 97] \o <<195, 169>>)} \* "é" before byte 20

\* the lengths of the zero bytes before the blocks: none, a few, and those
\* that put a block across the end of the region scanned
SigLeads == {0, 3, SIG_REGION - 10, SIG_REGION - 9, SIG_REGION - 4, SIG_REGION - 3,
             SIG_REGION}

SigInit ==
    /\ input \in [prefix : {Zeros(n) : n \in SigLeads}, frames : {<<>>},
                  tags : {Concat(a, Concat(Zeros(g), b)) :
                              a \in SigBlocks, b \in SigBlocks, g \in {0, 1}},
                  trailer : {Zeros(0), Zeros(30)}]
    /\ data = FileOf(input)
    /\ max_frames = 0
    /\ scan = ScanIdle
    /\ extracted = None
    /\ lowpass_args = <<>>
    /\ lowpass_check = None
    /\ signatures = None
    /\ pc = "signatures"
    /\ IdleParse /\ IdleAnalyze /\ IdleCompare

\* the call count_encoder_signatures(reader), which scans the signatures and
\* counts those that are set
CountSignatures ==
    /\ pc = "signatures"
    /\ signatures' = Some([sigs  |-> scan_encoder_signatures(data),
                           count |-> count_encoder_signatures(data)])
    /\ pc' = "counted"
    /\ UNCHANGED <<header, parsed, ScanVars, AnalyzeVars, CompareVars, extracted,
                   lowpass_args, lowpass_check>>

SpecSignatures == SigInit /\ [][CountSignatures]_vars

(***************************************************************************)
(* C22: the LAME version string of scan_encoder_signatures                 *)
(***************************************************************************)
\* the first 65536 bytes of the file
SignatureRegion == Slice(data, 0, 65536)

\* the longest prefix of q made of ASCII alphanumerics, '.' and '-'
VersionPrefix(q) ==
    LET k == CHOOSE n \in 0..Len(q) :
                 /\ \A i \in 1..n : IsVersionChar(q[i])
                 /\ n = Len(q) \/ ~IsVersionChar(q[n + 1])
    IN  SubSeq(q, 1, k)

\* the at most 20 bytes of the region from offset p
UpTo20From(p) == SeqOf(Slice(SignatureRegion, p, p + 20))

\* C22 (as claimed): whenever "LAME" occurs in the first 65536 bytes, lame is
\* the longest prefix of version characters of the at most 20 bytes from its
\* first occurrence, whatever bytes follow that prefix; lame is absent exactly
\* when "LAME" does not occur, and a version present is never empty.
C22_LameVersion_AsClaimed ==
    (pc = "counted") =>
        LET at   == FirstOccurrence(SignatureRegion, S_LAME)
            lame == signatures.val.sigs.lame
        IN  /\ at.some => lame = Some(VersionPrefix(UpTo20From(at.val)))
            /\ ~lame.some <=> ~at.some
            /\ lame.some => lame.val # <<>>

\* a LAME tag whose lowpass byte is 0xA0: "LAME" occurs and lame is absent
C22_Bug_TagBytesHideLame ==
    /\ pc = "counted"
    /\ data = LameTag(<<76, 65, 77, 69, 51, 46, 49, 48, 48>>, 36, 160)
    /\ signatures.val.sigs.lame = None

(***************************************************************************)
(* C23: the signature flags and their count                                *)
(***************************************************************************)
\* needle occurs in the first 65536 bytes of the file
InRegion(needle) == FirstOccurrence(SignatureRegion, needle).some

\* the number of the given conditions that are true
TrueAmong(conds) == Cardinality({i \in DOMAIN conds : conds[i]})

\* C23: fraunhofer is set iff "Fraunhofer" or "FhG" occurs in the first 65536
\* bytes, itunes iff "iTunes" occurs or both "Lavf" and "Apple" occur, ffmpeg
\* iff "Lavf" or "libmp3lame" occurs, xing iff "Xing" or "Info" occurs; the
\* count is the number of lame-present, fraunhofer, itunes and ffmpeg that
\* are true, between 0 and 4, and xing takes no part in it.
C23_SignatureFlags ==
    (pc = "counted") =>
        LET sigs == signatures.val.sigs
        IN  /\ sigs.fraunhofer <=> (InRegion(S_Fraunhofer) \/ InRegion(S_FhG))
            /\ sigs.itunes <=> (InRegion(S_iTunes) \/ (InRegion(S_Lavf) /\ InRegion(S_Apple)))
            /\ sigs.ffmpeg <=> (InRegion(S_Lavf) \/ InRegion(S_libmp3lame))
            /\ sigs.xing <=> (InRegion(S_Xing) \/ InRegion(S_Info))
            /\ signatures.val.count
                   = TrueAmong(<<sigs.lame.some, sigs.fraunhofer, sigs.itunes, sigs.ffmpeg>>)
            /\ signatures.val.count \in 0..4

\* "FhG iTunes" and "LAME3.99 Lavf" in one file: the count is 4
C23_Witness_AllFour ==
    /\ pc = "counted"
    /\ signatures.val.sigs.lame.some
    /\ signatures.val.sigs.fraunhofer
    /\ signatures.val.sigs.itunes
    /\ signatures.val.sigs.ffmpeg
    /\ signatures.val.count = 4
    /\ ~signatures.val.sigs.xing

(***************************************************************************)
(* SpecInfo: the frame scan of Analyzer::analyze and the basic information *)
(* taken from it                                                           *)
(***************************************************************************)
InfoInit ==
    /\ input \in [prefix : Prefixes, frames : FrameLists, tags : {Zeros(0)},
                  trailer : CutFrames]
                 \cup [prefix : {Zeros(SYNC_SEARCH_LIMIT), Zeros(SYNC_SEARCH_LIMIT + 1)},
                       frames : {<<<<255, 251, 144, 0>>>>, <<<<255, 255, 22, 64>>>>},
                       tags : {Zeros(0)}, trailer : {Zeros(0)}]
    /\ data = FileOf(input)
    /\ max_frames = SCAN_FRAMES
    /\ scan = ScanIdle
    /\ pc = "scan"
    /\ IdleParse /\ IdleAnalyze /\ IdleCompare /\ IdleLame

\* bitrate, sample_rate and duration_secs once scan_frames has returned;
\* find_sync runs on the same bytes from their beginning
TakeBasicInfo ==
    /\ pc = "scanned"
    /\ locals' = WithBasicInfo(locals, BasicInfoOf(data, scan, find_sync(data)))
    /\ pc' = "binary"
    /\ UNCHANGED <<header, parsed, ScanVars, analyzer, readable, result, CompareVars,
                   LameVars>>

SpecInfo == InfoInit /\ [][ScanNext \/ TakeBasicInfo]_vars

(***************************************************************************)
(* C26: the sample rate reported is that of the first frame scanned        *)
(***************************************************************************)
\* the header of the first frame recorded by the scan
FirstScanned == parse(Window4(data, scan.offsets[1])).val

\* C26 (as claimed): whenever the scan has recorded at least one frame, the
\* sample_rate reported is the sample rate of the first frame recorded:
\* find_sync on the same bytes returns the offset of that frame, wherever in
\* the file it lies.
C26_SampleRateOfFirstFrame_AsClaimed ==
    (pc = "binary" /\ scan.status = "ok" /\ scan.stats.frame_count >= 1) =>
        /\ find_sync(data) = [ok |-> TRUE, pos |-> Some(scan.offsets[1])]
        /\ locals.sample_rate = FirstScanned.sample_rate

\* a 48000 Hz frame behind 10001 zero bytes is scanned and reported as 44100 Hz
C26_Bug_DefaultRateDespiteFrame ==
    /\ pc = "binary"
    /\ input.prefix = Zeros(10001)
    /\ scan.stats.frame_count = 1
    /\ FirstScanned.sample_rate = 48000
    /\ locals.sample_rate = 44100
    /\ locals.bitrate = FirstScanned.bitrate

(***************************************************************************)
(* C24: the ERROR result                                                   *)
(***************************************************************************)
\* C24: analyze returns the verdict ERROR exactly when reading the file
\* failed; that result carries an error message, has bitrate, sample_rate,
\* duration and the three scores zero, no flags and no detail blocks, and no
\* analysis step has run; every other result has no error and a verdict out
\* of OK, SUSPECT and TRANSCODE.
C24_ErrorResult ==
    (pc = "done" /\ result.some) =>
        LET r == result.val
        IN  /\ r.verdict = "ERROR" <=> ~readable
            /\ r.verdict = "ERROR" =>
                  /\ r.error.some
                  /\ r.bitrate = 0 /\ r.sample_rate = 0 /\ r.duration_secs[1] = 0
                  /\ r.combined_score = 0 /\ r.spectral_score = 0 /\ r.binary_score = 0
                  /\ r.flags = <<>>
                  /\ r.spectral_details = None /\ r.binary_details = None
                  /\ locals.binary_result = None /\ locals.spectral_result = None
            /\ r.verdict # "ERROR" =>
                  /\ r.error = None
                  /\ r.verdict \in {"OK", "SUSPECT", "TRANSCODE"}

\* a file that cannot be read, whatever bytes it holds (here a 320 kbps frame)
C24_Witness_ReadFailed ==
    /\ pc = "done"
    /\ ~readable
    /\ input.frames = <<<<255, 251, 224, 0>>>>
    /\ result.val.verdict = "ERROR"
    /\ result.val.error.some

(***************************************************************************)
(* C25: a readable file in which the scan finds no frame                   *)
(***************************************************************************)
\* the frame scan of analyze fails or records no frame
NoFrameFound ==
    LET fs == scan_frames(data, 200)
    IN  fs.status = "err" \/ fs.stats.frame_count = 0

\* C25 (as claimed): when the file was read and the frame scan finds no
\* frame or fails, analyze still runs the binary and the spectral scoring and
\* returns a result that is not an error, with bitrate 0, sample_rate 44100,
\* duration 0 and a verdict out of OK, SUSPECT and TRANSCODE.
C25_NoFrameFound_AsClaimed ==
    (pc \in {"panicked", "done"} /\ readable /\ input.frames = <<>> /\ NoFrameFound) =>
        /\ pc = "done"
        /\ locals.binary_result.some /\ locals.spectral_result.some
        /\ result.val.error = None
        /\ result.val.bitrate = 0
        /\ result.val.sample_rate = 44100
        /\ result.val.duration_secs[1] = 0
        /\ result.val.verdict \in {"OK", "SUSPECT", "TRANSCODE"}

\* the file "Xing\0\0\0\4": no frame is found and analyze panics
C25_Bug_PanicWithoutFrame ==
    /\ pc = "panicked"
    /\ readable
    /\ data = XingHeader(S_Xing, 4, Zeros(0))
    /\ locals.bitrate = 0
    /\ locals.sample_rate = 44100
    /\ result = None

(***************************************************************************)
(* C27: the bitrates below which the lowpass and the frame rule are silent *)
(***************************************************************************)
\* the names of the flags binary::analyze returned
BinaryFlagNames ==
    {locals.binary_result.val.flags[i][1] : i \in DOMAIN locals.binary_result.val.flags}

\* C27: when the scan found no frame (bitrate 0) the lowpass rule and the
\* frame rule cannot fire, so binary_score is 0 or 20 and the only flag
\* possible is multi_encoder_sigs; the lowpass rule never fires for a bitrate
\* below 128 and the frame rule never for a bitrate below 256.
C27_RulesNeedBitrate ==
    BinaryReturned =>
        /\ locals.bitrate = 0 =>
              /\ locals.binary_result.val.score \in {0, 20}
              /\ BinaryFlagNames \subseteq {"multi_encoder_sigs"}
        /\ locals.bitrate < 128 => "lowpass_mismatch" \notin BinaryFlagNames
        /\ locals.bitrate < 256 =>
              /\ "irregular_frames" \notin BinaryFlagNames
              /\ locals.binary_result.val.score \in {0, 20, 35, 55}

\* frames of 448 and 32 bytes at 240 kbps on average: the sizes vary by more
\* than 15 percent and the frame rule is silent
C27_Witness_IrregularBelow256 ==
    /\ BinaryReturned
    /\ locals.bitrate = 240
    /\ locals.binary_result.val.details.cv_over_15
    /\ "irregular_frames" \notin BinaryFlagNames

(***************************************************************************)
(* C28: the read offset of scan_frames strictly increases                  *)
(***************************************************************************)
\* one iteration of the loop of scan_frames that read a window
WindowRead == pc = "scan" /\ scan.status = "loop" /\ scan'.status = "loop"

\* C28: in scan_frames the read offset strictly increases on every loop
\* iteration: a header accepted at the offset has frame_size > 4, is recorded,
\* and the next read is exactly frame_size bytes after it; after a rejected
\* window nothing is recorded and the next window starts 1 byte later; and
\* frame_count, the number of bitrates and the number of frame sizes stay
\* equal throughout.
C28_OffsetStrictlyIncreases ==
    /\ [][WindowRead =>
            LET frame == parse(Window4(data, scan.pos))
            IN  /\ scan'.pos > scan.pos
                /\ IF frame.some
                   THEN /\ frame.val.frame_size > 4
                        /\ scan'.pos = scan.pos + frame.val.frame_size
                        /\ scan'.stats.frame_count = scan.stats.frame_count + 1
                        /\ scan'.stats.frame_sizes
                               = Append(scan.stats.frame_sizes, frame.val.frame_size)
                        /\ scan'.stats.bitrates
                               = Append(scan.stats.bitrates, frame.val.bitrate)
                   ELSE /\ scan'.pos = scan.pos + 1
                        /\ scan'.stats = scan.stats]_vars
    /\ [](/\ scan.stats.frame_count = Len(scan.stats.bitrates)
          /\ scan.stats.frame_count = Len(scan.stats.frame_sizes))

\* two windows rejected, then two frames accepted: the reader stands behind
\* the second frame
C28_Witness_RejectsThenFrames ==
    /\ pc = "scan" /\ scan.status = "loop"
    /\ scan.stats.frame_count = 2
    /\ scan.offsets[1] = 2
    /\ scan.offsets[2] = 2 + scan.stats.frame_sizes[1]
    /\ scan.pos = 2 + scan.stats.frame_sizes[1] + scan.stats.frame_sizes[2]

(***************************************************************************)
(* C29: the minimum is below the expected lowpass; suspicion is monotone   *)
(***************************************************************************)
\* check_lowpass_mismatch flags the lowpass lp at the bitrate b
Flagged(b, lp) == check_lowpass_mismatch(b, lp).is_suspicious

\* C29: for every bitrate the minimum acceptable lowpass is at most the
\* expected lowpass, so a lowpass at or above the expected one is never
\* flagged; and suspicion is monotone: if (b, lp) is flagged then so is every
\* (b2, lp2) with b2 >= b and 0 < lp2 <= lp.
C29_LowpassMonotone ==
    (pc = "lowpass_checked") =>
        LET b  == lowpass_args[1]
            lp == lowpass_args[2]
            r  == lowpass_check.val
        IN  /\ min_acceptable_lowpass(b) <= r.expected
            /\ lp >= r.expected => ~r.is_suspicious
            /\ r.is_suspicious =>
                  \A b2 \in LowpassBitrates, lp2 \in Lowpasses :
                      (b2 >= b /\ 0 < lp2 /\ lp2 <= lp) => Flagged(b2, lp2)

\* 14999 Hz is flagged at 128 kbps, and with it 1 Hz at 1000 kbps
C29_Witness_FlaggedAtLowestBitrate ==
    /\ pc = "lowpass_checked"
    /\ lowpass_args = <<128, 14999>>
    /\ lowpass_check.val.is_suspicious
    /\ Flagged(1000, 1)
    /\ ~Flagged(127, 14999)

(***************************************************************************)
(* C30: "Lavf" and "Apple" together count as two encoders                  *)
(***************************************************************************)
\* C30: a file whose first 65536 bytes contain both "Lavf" and "Apple" has
\* both itunes and ffmpeg set, so the signature count is at least 2 and
\* binary::analyze adds 20 with the flag multi_encoder_sigs; a file that
\* contains "iTunes" and no other signature text has count 1 and no such flag.
C30_LavfAndApple ==
    BinaryReturned =>
        LET b    == locals.binary_result.val
            sigs == scan_encoder_signatures(data)
        IN  /\ (InRegion(S_Lavf) /\ InRegion(S_Apple)) =>
                  /\ sigs.itunes /\ sigs.ffmpeg
                  /\ b.details.encoder_count >= 2
                  /\ "multi_encoder_sigs" \in BinaryFlagNames
                  /\ b.score \in {20, 30, 55, 65}
            /\ (/\ InRegion(S_iTunes)
                /\ ~InRegion(S_LAME) /\ ~InRegion(S_Fraunhofer) /\ ~InRegion(S_FhG)
                /\ ~InRegion(S_Lavf) /\ ~InRegion(S_libmp3lame)) =>
                  /\ b.details.encoder_count = 1
                  /\ "multi_encoder_sigs" \notin BinaryFlagNames
                  /\ b.score \in {0, 10, 35, 45}

\* a 128 kbps frame followed by "Lavf58 Apple" and nothing else: count 2,
\* score 20
C30_Witness_LavfAppleTrailer ==
    /\ BinaryReturned
    /\ input.frames = <<<<255, 251, 144, 0>>>>
    /\ input.tags = Zeros(0)
    /\ input.trailer = Bytes(S_Lavf \o <<53, 56, 32>> \o S_Apple)
    /\ locals.binary_result.val.details.encoder_count = 2
    /\ locals.binary_result.val.flags = <<<<"multi_encoder_sigs">>>>
    /\ locals.binary_result.val.score = 20

====
